---- MODULE Spec2Model ----
(***************************************************************************)
(* Model of the warden authorization engine (github.com/xraph/warden):     *)
(* the decision pipeline Engine.Check with its three evaluators (RBAC,     *)
(* ReBAC, ABAC), the decision merger, the BFS graph walker and the         *)
(* in-memory store the engine reads.                                       *)
(*                                                                         *)
(* Go strings that the code concatenates, trims or tests for a prefix are  *)
(* sequences of one-character strings, so "%s:%s#%s" is concatenation and  *)
(* two different inputs can format to the same text.  Identifiers          *)
(* (TypeIDs) and fixed messages are TLA+ strings.                          *)
(***************************************************************************)
EXTENDS Integers, Sequences, FiniteSets, TLC

VARIABLES
    roles,            \* memory.Store.roles: role id -> role record
    permissions,      \* memory.Store.permissions: permission id -> record
    rolePermissions,  \* memory.Store.rolePermissions: role id -> set of permission ids
    assignments,      \* memory.Store.assignments: assignment id -> record
    relations,        \* memory.Store.relations: relation id -> tuple
    policies,         \* memory.Store.policies: policy id -> record
    now,              \* wall clock (time.Now)
    checked,          \* the last Engine.Check call: request, sub-results, result
    mergeIn,          \* arguments of a mergeDecisions call
    mergeOut,         \* its return value
    evalIn,           \* arguments of a conditionEvaluator.Evaluate call
    evalOut,          \* its return value
    inherit,          \* a resolveInheritedRoles call: role graph, input, output
    walk,             \* a bfsGraphWalker.Walk call in progress
    cache,            \* cache.Memory: entries, ttl, maxSize
    plugins,          \* plugin.Registry: the plugins and the per-hook entry lists
    trace,            \* for each cache entry, the Set call that stored it
    call,             \* the last call on the engine, the cache or the registry and what it returned
    heap,             \* the maps and pointer cells that role structs refer to
    config            \* Engine.config

storeVars == <<roles, permissions, rolePermissions, assignments, relations, policies>>
extVars == <<cache, plugins, trace, call, heap, config>>
vars == <<roles, permissions, rolePermissions, assignments, relations, policies,
          now, checked, mergeIn, mergeOut, evalIn, evalOut, inherit, walk,
          cache, plugins, trace, call, heap, config>>

----------------------------------------------------------------------------
(* Strings                                                                 *)

\* strings.HasPrefix
HasPrefix(s, prefix) ==
    /\ Len(prefix) <= Len(s)
    /\ SubSeq(s, 1, Len(prefix)) = prefix

\* strings.HasSuffix
HasSuffix(s, suffix) ==
    /\ Len(suffix) <= Len(s)
    /\ SubSeq(s, Len(s) - Len(suffix) + 1, Len(s)) = suffix

\* strings.TrimSuffix
TrimSuffix(s, suffix) ==
    IF HasSuffix(s, suffix) THEN SubSeq(s, 1, Len(s) - Len(suffix)) ELSE s

\* the elements of a sequence
Range(s) == {s[i] : i \in 1..Len(s)}

\* all orders in which a Go map iteration can list the members of a finite set
Orderings(S) ==
    {s \in [1..Cardinality(S) -> S] : \A i, j \in 1..Cardinality(S) : i # j => s[i] # s[j]}

\* matcher.go: matchGlob
matchGlob(pattern, value) ==
    IF pattern = <<"*">> THEN TRUE
    ELSE IF pattern = value THEN TRUE
    ELSE IF HasSuffix(pattern, <<":", "*">>) THEN HasPrefix(value, TrimSuffix(pattern, <<"*">>))
    ELSE IF HasSuffix(pattern, <<".", "*">>) THEN HasPrefix(value, TrimSuffix(pattern, <<"*">>))
    ELSE IF HasSuffix(pattern, <<"*">>) THEN HasPrefix(value, TrimSuffix(pattern, <<"*">>))
    ELSE FALSE

\* matcher.go: matchPermission
matchPermission(permName, required) ==
    IF permName = required THEN TRUE ELSE matchGlob(permName, required)

----------------------------------------------------------------------------
(* Check results                                                           *)

\* a nil *CheckResult
Nil == [isNil |-> TRUE]

\* the empty Go string in a Reason or Detail
NoText == <<>>

\* a non-nil *CheckResult; EvalTimeNs is stamped by Check and is not part of
\* the decision
CheckResult(allowed, decision, reason, matchedBy) ==
    [isNil |-> FALSE, allowed |-> allowed, decision |-> decision,
     reason |-> reason, matchedBy |-> matchedBy]

\* MatchInfo
MatchInfo(source, ruleID, detail) ==
    [source |-> source, ruleID |-> ruleID, detail |-> detail]

DecisionAllow == "allow"
DecisionDeny == "deny"
DecisionDenyExplicit == "deny_explicit"
DecisionDenyDefault == "deny_default"
DecisionDenyNoRoles == "deny_no_roles"
DecisionDenyNoPerms == "deny_no_perms"
DecisionDenyCondition == "deny_condition"
DecisionDenyRelation == "deny_relation"

IsAllowed(r) == r # Nil /\ r.allowed
HasReason(r) == r # Nil /\ r.reason # NoText

\* for _, r := range rs { if r != nil && r.Allowed { return r } }
RECURSIVE FirstAllowed(_, _)
FirstAllowed(rs, i) ==
    IF i > Len(rs) THEN Nil
    ELSE IF IsAllowed(rs[i]) THEN rs[i]
    ELSE FirstAllowed(rs, i + 1)

\* for _, r := range rs { if r != nil && r.Reason != "" { return r } }
RECURSIVE FirstWithReason(_, _)
FirstWithReason(rs, i) ==
    IF i > Len(rs) THEN Nil
    ELSE IF HasReason(rs[i]) THEN rs[i]
    ELSE FirstWithReason(rs, i + 1)

\* a mergeDecisions that looks for an allow before it looks at ABAC's deny
mergeDecisionsAllowFirst(rbac, rebac, abac) ==
    LET rs == <<rbac, rebac, abac>>
        firstAllow == FirstAllowed(rs, 1)
        firstReason == FirstWithReason(rs, 1)
    IN  IF firstAllow # Nil THEN firstAllow
        ELSE IF abac # Nil /\ abac.decision = DecisionDenyExplicit THEN abac
        ELSE IF firstReason # Nil THEN firstReason
        ELSE CheckResult(FALSE, DecisionDenyDefault, <<"no matching allow rule">>, <<>>)

\* a mergeDecisions that prefers ReBAC to RBAC
mergeDecisionsSwapped(rbac, rebac, abac) ==
    LET rs == <<rebac, rbac, abac>>
        firstAllow == FirstAllowed(rs, 1)
        firstReason == FirstWithReason(rs, 1)
    IN  IF abac # Nil /\ abac.decision = DecisionDenyExplicit THEN abac
        ELSE IF firstAllow # Nil THEN firstAllow
        ELSE IF firstReason # Nil THEN firstReason
        ELSE CheckResult(FALSE, DecisionDenyDefault, <<"no matching allow rule">>, <<>>)

\* Engine.mergeDecisions
mergeDecisions(rbac, rebac, abac) ==
    LET rs == <<rbac, rebac, abac>>
        firstAllow == FirstAllowed(rs, 1)
        firstReason == FirstWithReason(rs, 1)
    IN  IF abac # Nil /\ abac.decision = DecisionDenyExplicit THEN abac
        ELSE IF firstAllow # Nil THEN firstAllow
        ELSE IF firstReason # Nil THEN firstReason
        ELSE CheckResult(FALSE, DecisionDenyDefault, <<"no matching allow rule">>, <<>>)

----------------------------------------------------------------------------
(* ABAC: conditionEvaluator                                                *)

\* values of type any: nil, a string, an int, or a list ([]any)
NilValue == [k |-> "nil"]
StrVal(s) == [k |-> "str", v |-> s]
IntVal(n) == [k |-> "int", v |-> n]
ListVal(l) == [k |-> "list", v |-> l]

Digits == <<"0", "1", "2", "3", "4", "5", "6", "7", "8", "9">>
IsDigit(c) == \E d \in 1..10 : Digits[d] = c
DigitValue(c) == (CHOOSE d \in 1..10 : Digits[d] = c) - 1

\* fmt.Sprint of a value (ints of the model are 0..9)
Sprint(val) ==
    IF val.k = "nil" THEN <<"<nil>">>
    ELSE IF val.k = "str" THEN val.v
    ELSE IF val.k = "int" THEN <<Digits[val.v + 1]>>
    ELSE <<"[", "]">>

\* strings.Contains
Contains(s, sub) ==
    \E i \in 1..(Len(s) + 1) : i + Len(sub) - 1 <= Len(s) /\ SubSeq(s, i, i + Len(sub) - 1) = sub

\* the leading decimal digits of a string, as fmt.Sscanf("%f") reads them;
\* no digit at the start is a scan error
RECURSIVE ScanDigits(_, _, _)
ScanDigits(s, i, acc) ==
    IF i <= Len(s) /\ IsDigit(s[i]) THEN ScanDigits(s, i + 1, acc * 10 + DigitValue(s[i]))
    ELSE acc

\* toFloat64
toFloat64(val) ==
    IF val.k = "int" THEN val.v
    ELSE IF val.k = "str" THEN ScanDigits(val.v, 1, 0)
    ELSE 0

\* compareNumbers
compareNumbers(a, b) ==
    IF toFloat64(a) < toFloat64(b) THEN -1
    ELSE IF toFloat64(a) > toFloat64(b) THEN 1
    ELSE 0

\* inSlice
inSlice(actual, expected) ==
    /\ expected.k = "list"
    /\ \E i \in 1..Len(expected.v) : Sprint(expected.v[i]) = Sprint(actual)

\* regexp.Compile: the patterns of the model are literal texts, which match
\* where they occur, and texts with an unclosed "(", which do not compile
RegexCompiles(pattern) == \A i \in 1..Len(pattern) : pattern[i] # "("

\* the (bool, error) pair a condition or a policy list evaluates to
Ok(b) == [ok |-> b, err |-> "nil"]
Fail(e) == [ok |-> FALSE, err |-> e]
ErrInvalidCondition == "warden: invalid policy condition"

\* evaluateCondition; ip_in_cidr, time_after and time_before are left out: no
\* policy of the model uses them
evaluateCondition(op, actual, expected) ==
    IF op = "eq" THEN Ok(Sprint(actual) = Sprint(expected))
    ELSE IF op = "neq" THEN Ok(Sprint(actual) # Sprint(expected))
    ELSE IF op = "in" THEN Ok(inSlice(actual, expected))
    ELSE IF op = "not_in" THEN Ok(~inSlice(actual, expected))
    ELSE IF op = "contains" THEN Ok(Contains(Sprint(actual), Sprint(expected)))
    ELSE IF op = "starts_with" THEN Ok(HasPrefix(Sprint(actual), Sprint(expected)))
    ELSE IF op = "ends_with" THEN Ok(HasSuffix(Sprint(actual), Sprint(expected)))
    ELSE IF op = "gt" THEN Ok(compareNumbers(actual, expected) > 0)
    ELSE IF op = "lt" THEN Ok(compareNumbers(actual, expected) < 0)
    ELSE IF op = "gte" THEN Ok(compareNumbers(actual, expected) >= 0)
    ELSE IF op = "lte" THEN Ok(compareNumbers(actual, expected) <= 0)
    ELSE IF op = "exists" THEN Ok(actual # NilValue)
    ELSE IF op = "not_exists" THEN Ok(actual = NilValue)
    ELSE IF op = "regex" THEN
        IF RegexCompiles(Sprint(expected)) THEN Ok(Contains(Sprint(actual), Sprint(expected)))
        ELSE Fail(ErrInvalidCondition)
    ELSE Fail(ErrInvalidCondition)

\* a map[string]any lookup; a nil map and a missing key both give nil
Lookup(m, key) == IF key \in DOMAIN m THEN m[key] ELSE NilValue

\* resolveField; a field is the sequence of its dot-separated parts' symbols,
\* e.g. <<"context", ".", "ip">>, and SplitN(field, ".", 2) cuts at the first "."
resolveField(field, req) ==
    LET dots == {i \in 1..Len(field) : field[i] = "."}
        cut == CHOOSE i \in dots : \A j \in dots : i <= j
        head == SubSeq(field, 1, cut - 1)
        tail == SubSeq(field, cut + 1, Len(field))
    IN  IF dots = {} THEN NilValue
        ELSE IF head = <<"subject">> THEN
            IF tail = <<"kind">> THEN StrVal(req.subject.kind)
            ELSE IF tail = <<"id">> THEN StrVal(req.subject.id)
            ELSE Lookup(req.subject.attributes, tail)
        ELSE IF head = <<"resource">> THEN
            IF tail = <<"type">> THEN StrVal(req.resource.type)
            ELSE IF tail = <<"id">> THEN StrVal(req.resource.id)
            ELSE Lookup(req.resource.attributes, tail)
        ELSE IF head = <<"action">> THEN
            IF tail = <<"name">> THEN StrVal(req.action.name) ELSE NilValue
        ELSE IF head = <<"context">> THEN Lookup(req.context, tail)
        ELSE NilValue

\* conditionEvaluator.evaluateConditions that takes a condition it cannot
\* evaluate as one that does not hold
RECURSIVE evaluateConditionsLenient(_, _, _)
evaluateConditionsLenient(conditions, i, req) ==
    IF i > Len(conditions) THEN Ok(TRUE)
    ELSE LET c == conditions[i]
             r == evaluateCondition(c.operator, resolveField(c.field, req), c.value)
         IN  IF r.err # "nil" THEN Ok(FALSE)
             ELSE IF ~r.ok THEN Ok(FALSE)
             ELSE evaluateConditionsLenient(conditions, i + 1, req)

\* conditionEvaluator.evaluateConditions: the first failing or erroring
\* condition ends the loop
RECURSIVE evaluateConditions(_, _, _)
evaluateConditions(conditions, i, req) ==
    IF i > Len(conditions) THEN Ok(TRUE)
    ELSE LET c == conditions[i]
             r == evaluateCondition(c.operator, resolveField(c.field, req), c.value)
         IN  IF r.err # "nil" THEN r
             ELSE IF ~r.ok THEN Ok(FALSE)
             ELSE evaluateConditions(conditions, i + 1, req)

\* conditionEvaluator.matchesSubject
matchesSubject(pol, req) ==
    \/ Len(pol.subjects) = 0
    \/ \E i \in 1..Len(pol.subjects) :
          /\ ~(pol.subjects[i].kind # <<>> /\ pol.subjects[i].kind # req.subject.kind)
          /\ ~(pol.subjects[i].id # <<>> /\ pol.subjects[i].id # req.subject.id)

\* conditionEvaluator.matchesAction
matchesAction(pol, req) ==
    \/ Len(pol.actions) = 0
    \/ \E i \in 1..Len(pol.actions) :
          pol.actions[i] = <<"*">> \/ matchGlob(pol.actions[i], req.action.name)

\* conditionEvaluator.matchesResource
matchesResource(pol, req) ==
    LET target == req.resource.type \o <<":">> \o req.resource.id
        targetType == req.resource.type \o <<":", "*">>
    IN  \/ Len(pol.resources) = 0
        \/ \E i \in 1..Len(pol.resources) :
              \/ pol.resources[i] = <<"*">>
              \/ pol.resources[i] = target
              \/ pol.resources[i] = targetType
              \/ matchGlob(pol.resources[i], target)
              \/ matchGlob(pol.resources[i], req.resource.type)

EffectAllow == "allow"
EffectDeny == "deny"

\* the CheckResult Evaluate builds for a policy that applies
PolicyResult(pol) ==
    LET info == MatchInfo("abac", pol.id, <<"policy ", pol.name, " (", pol.effect, ")">>)
    IN  IF pol.effect = EffectDeny
        THEN CheckResult(FALSE, DecisionDenyExplicit, <<"denied by policy ", pol.name>>, <<info>>)
        ELSE CheckResult(TRUE, DecisionAllow, NoText, <<info>>)

\* the loop of Evaluate over policies[i..], carrying bestDeny and bestAllow
RECURSIVE EvaluateLoop(_, _, _, _, _)
EvaluateLoop(pols, i, req, bestDeny, bestAllow) ==
    IF i > Len(pols) THEN
        [res |-> IF bestDeny # Nil THEN bestDeny ELSE bestAllow, err |-> "nil"]
    ELSE LET pol == pols[i]
             skip == EvaluateLoop(pols, i + 1, req, bestDeny, bestAllow)
         IN  IF ~pol.isActive THEN skip
             ELSE IF ~matchesSubject(pol, req) THEN skip
             ELSE IF ~matchesAction(pol, req) THEN skip
             ELSE IF ~matchesResource(pol, req) THEN skip
             ELSE LET met == evaluateConditions(pol.conditions, 1, req)
                  IN  IF met.err # "nil" THEN [res |-> Nil, err |-> met.err]
                      ELSE IF ~met.ok THEN skip
                      ELSE IF pol.effect = EffectDeny THEN
                          EvaluateLoop(pols, i + 1, req,
                              IF bestDeny = Nil THEN PolicyResult(pol) ELSE bestDeny, bestAllow)
                      ELSE
                          EvaluateLoop(pols, i + 1, req, bestDeny,
                              IF bestAllow = Nil THEN PolicyResult(pol) ELSE bestAllow)

\* an Evaluate that returns what the first policy with an opinion says
EvaluateFirstMatch(pols, req) ==
    LET alone(i) == EvaluateLoop(<<pols[i]>>, 1, req, Nil, Nil)
        hits == {i \in 1..Len(pols) : alone(i).err # "nil" \/ alone(i).res # Nil}
    IN  IF hits = {} THEN [res |-> Nil, err |-> "nil"]
        ELSE alone(CHOOSE i \in hits : \A j \in hits : i <= j)

\* conditionEvaluator.Evaluate: (result, err)
Evaluate(pols, req) ==
    IF Len(pols) = 0 THEN [res |-> Nil, err |-> "nil"]
    ELSE EvaluateLoop(pols, 1, req, Nil, Nil)

----------------------------------------------------------------------------
(* The in-memory store (package memory), as the engine reads it.  A store  *)
(* is the record of its maps; a list the store builds by ranging over a    *)
(* map comes in the order of the map iteration, which the caller of these  *)
(* operators passes as a sequence of the map's keys.                       *)

\* "no such key" in a loop's result
None == "none"

\* an optional field (*time.Time, *id.RoleID): nil, or a pointer to x
NilPtr == <<>>
Ptr(x) == <<x>>
Deref(p) == p[1]

\* the keys of `order` that satisfy Keep, in the order of `order`
RECURSIVE FilterKeys(_, _, _)
FilterKeys(order, i, keep) ==
    IF i > Len(order) THEN <<>>
    ELSE IF order[i] \in keep THEN <<order[i]>> \o FilterKeys(order, i + 1, keep)
    ELSE FilterKeys(order, i + 1, keep)

\* Store.ListRolesForSubject
ListRolesForSubject(st, tenantID, subjectKind, subjectID, order) ==
    LET keep == {a \in DOMAIN st.assignments :
                    /\ st.assignments[a].tenant = tenantID
                    /\ st.assignments[a].subjectKind = subjectKind
                    /\ st.assignments[a].subjectID = subjectID
                    /\ st.assignments[a].resourceType = <<>>}
        ids == FilterKeys(order, 1, keep)
    IN  [i \in 1..Len(ids) |-> st.assignments[ids[i]].role]

\* Store.ListRolesForSubjectOnResource that matches the resource type only
ListRolesForSubjectOnResourceType(st, tenantID, subjectKind, subjectID, resourceType, resourceID, order) ==
    LET keep == {a \in DOMAIN st.assignments :
                    /\ st.assignments[a].tenant = tenantID
                    /\ st.assignments[a].subjectKind = subjectKind
                    /\ st.assignments[a].subjectID = subjectID
                    /\ st.assignments[a].resourceType = resourceType}
        ids == FilterKeys(order, 1, keep)
    IN  [i \in 1..Len(ids) |-> st.assignments[ids[i]].role]

\* Store.ListRolesForSubjectOnResource
ListRolesForSubjectOnResource(st, tenantID, subjectKind, subjectID, resourceType, resourceID, order) ==
    LET keep == {a \in DOMAIN st.assignments :
                    /\ st.assignments[a].tenant = tenantID
                    /\ st.assignments[a].subjectKind = subjectKind
                    /\ st.assignments[a].subjectID = subjectID
                    /\ st.assignments[a].resourceType = resourceType
                    /\ st.assignments[a].resourceID = resourceID}
        ids == FilterKeys(order, 1, keep)
    IN  [i \in 1..Len(ids) |-> st.assignments[ids[i]].role]

\* Store.ListRolePermissions: nil for a role without an entry
ListRolePermissions(st, roleID, order) ==
    IF roleID \notin DOMAIN st.rolePermissions THEN <<>>
    ELSE FilterKeys(order, 1, st.rolePermissions[roleID])

\* Store.ListRelationSubjects
ListRelationSubjects(st, tenantID, objectType, objectID, rel, order) ==
    LET keep == {t \in DOMAIN st.relations :
                    /\ st.relations[t].tenant = tenantID
                    /\ st.relations[t].objectType = objectType
                    /\ st.relations[t].objectID = objectID
                    /\ st.relations[t].relation = rel}
        ids == FilterKeys(order, 1, keep)
    IN  [i \in 1..Len(ids) |-> st.relations[ids[i]]]

\* Store.CheckDirectRelation
CheckDirectRelation(st, tenantID, objectType, objectID, rel, subjectType, subjectID) ==
    \E t \in DOMAIN st.relations :
        /\ st.relations[t].tenant = tenantID
        /\ st.relations[t].objectType = objectType
        /\ st.relations[t].objectID = objectID
        /\ st.relations[t].relation = rel
        /\ st.relations[t].subjectType = subjectType
        /\ st.relations[t].subjectID = subjectID

\* Store.ListActivePolicies
ListActivePolicies(st, tenantID, order) ==
    LET keep == {p \in DOMAIN st.policies :
                    st.policies[p].tenant = tenantID /\ st.policies[p].isActive}
        ids == FilterKeys(order, 1, keep)
    IN  [i \in 1..Len(ids) |-> st.policies[ids[i]]]

----------------------------------------------------------------------------
(* RBAC                                                                    *)

\* the safety limit of walkRoleParents
MaxRoleDepth == 20

\* Engine.walkRoleParents; acc is the pair (seen, *result)
RECURSIVE walkRoleParents(_, _, _, _)
walkRoleParents(rolesMap, roleID, acc, depth) ==
    IF roleID \in acc.seen THEN acc
    ELSE IF depth > MaxRoleDepth THEN acc
    ELSE LET acc2 == [seen |-> acc.seen \cup {roleID}, result |-> Append(acc.result, roleID)]
         IN  IF roleID \notin DOMAIN rolesMap THEN acc2
             ELSE IF rolesMap[roleID].parent = NilPtr THEN acc2
             ELSE walkRoleParents(rolesMap, Deref(rolesMap[roleID].parent), acc2, depth + 1)

\* the loop of resolveInheritedRoles over roleIDs[i..]
RECURSIVE resolveLoop(_, _, _, _)
resolveLoop(rolesMap, roleIDs, i, acc) ==
    IF i > Len(roleIDs) THEN acc
    ELSE resolveLoop(rolesMap, roleIDs, i + 1, walkRoleParents(rolesMap, roleIDs[i], acc, 0))

\* Engine.resolveInheritedRoles
resolveInheritedRoles(rolesMap, roleIDs) ==
    resolveLoop(rolesMap, roleIDs, 1, [seen |-> {}, result |-> <<>>]).result

\* the inner loop of evaluateRBAC over perms[j..] of one role: the first
\* permission that exists and matches, or None
RECURSIVE FirstGrant(_, _, _, _)
FirstGrant(st, perms, j, permName) ==
    IF j > Len(perms) THEN None
    ELSE IF perms[j] \notin DOMAIN st.permissions THEN FirstGrant(st, perms, j + 1, permName)
    ELSE IF matchPermission(st.permissions[perms[j]].resource \o <<":">> \o st.permissions[perms[j]].action,
                            permName)
         THEN perms[j]
    ELSE FirstGrant(st, perms, j + 1, permName)

\* the outer loop of evaluateRBAC over allRoles[i..]
RECURSIVE GrantLoop(_, _, _, _, _)
GrantLoop(st, allRoles, i, permName, permOrder) ==
    IF i > Len(allRoles) THEN
        CheckResult(FALSE, DecisionDenyNoPerms, <<"no role grants required permission">>, <<>>)
    ELSE LET g == FirstGrant(st, ListRolePermissions(st, allRoles[i], permOrder), 1, permName)
         IN  IF g # None
             THEN CheckResult(TRUE, DecisionAllow, NoText,
                      <<MatchInfo("rbac", allRoles[i],
                          <<"role grants ">> \o st.permissions[g].resource \o <<":">> \o st.permissions[g].action)>>)
             ELSE GrantLoop(st, allRoles, i + 1, permName, permOrder)

\* an evaluateRBAC that answers from the assigned roles without their parents
evaluateRBACNoInherit(st, tenantID, req, ord) ==
    LET allRoles == ListRolesForSubject(st, tenantID, req.subject.kind, req.subject.id, ord.assignments)
                    \o ListRolesForSubjectOnResource(st, tenantID, req.subject.kind, req.subject.id,
                                                     req.resource.type, req.resource.id, ord.assignments)
    IN  IF Len(allRoles) = 0
        THEN [res |-> CheckResult(FALSE, DecisionDenyNoRoles, <<"subject has no roles">>, <<>>), err |-> "nil"]
        ELSE [res |-> GrantLoop(st, allRoles, 1,
                                req.resource.type \o <<":">> \o req.action.name, ord.permissions),
              err |-> "nil"]

\* Engine.evaluateRBAC: (result, err); the memory store's lookups do not fail
evaluateRBAC(st, tenantID, req, ord) ==
    LET globalRoles == ListRolesForSubject(st, tenantID, req.subject.kind, req.subject.id, ord.assignments)
        resourceRoles == ListRolesForSubjectOnResource(st, tenantID, req.subject.kind, req.subject.id,
                                                       req.resource.type, req.resource.id, ord.assignments)
        allRoles == globalRoles \o resourceRoles
    IN  IF Len(allRoles) = 0
        THEN [res |-> CheckResult(FALSE, DecisionDenyNoRoles, <<"subject has no roles">>, <<>>), err |-> "nil"]
        ELSE [res |-> GrantLoop(st, resolveInheritedRoles(st.roles, allRoles), 1,
                                req.resource.type \o <<":">> \o req.action.name, ord.permissions),
              err |-> "nil"]

----------------------------------------------------------------------------
(* ReBAC: bfsGraphWalker                                                   *)

\* fmt.Sprintf("%s:%s#%s", objectType, objectID, relation)
FmtNode(objectType, objectID, rel) == objectType \o <<":">> \o objectID \o <<"#">> \o rel

\* fmt.Sprintf("%s:%s", subjectType, subjectID)
FmtSubject(subjectType, subjectID) == subjectType \o <<":">> \o subjectID

\* strings.Join(parts, " -> ")
RECURSIVE Join(_, _)
Join(parts, i) ==
    IF i > Len(parts) THEN <<>>
    ELSE IF i = Len(parts) THEN parts[i]
    ELSE parts[i] \o <<" -> ">> \o Join(parts, i + 1)

\* a walkNode
WalkNode(objectType, objectID, rel, depth, path) ==
    [objectType |-> objectType, objectID |-> objectID, relation |-> rel,
     depth |-> depth, path |-> path]

\* the state of Walk at the top of its loop: the queue, the visited set, the
\* (objectType, objectID, relation) arguments of the ListRelationSubjects
\* calls made so far (in call order), and the return value once it has
\* returned
WalkStart(req) ==
    [queue |-> <<WalkNode(req.resource.type, req.resource.id, req.action.name, 0,
                          <<FmtNode(req.resource.type, req.resource.id, req.action.name)>>)>>,
     visited |-> {},
     expanded |-> <<>>,
     status |-> "running",
     path |-> <<>>]

\* the loop over the tuples[i..] of one node: return at a tuple of the target
\* subject, else enqueue the tuple's subject
RECURSIVE TupleLoop(_, _, _, _, _)
TupleLoop(w, node, tuples, i, req) ==
    IF i > Len(tuples) THEN w
    ELSE LET t == tuples[i]
         IN  IF t.subjectType = req.subject.kind /\ t.subjectID = req.subject.id
             THEN [w EXCEPT !.status = "allowed",
                            !.path = Join(Append(node.path, FmtSubject(t.subjectType, t.subjectID)), 1)]
             ELSE IF t.subjectRelation # <<>>
             THEN TupleLoop([w EXCEPT !.queue = Append(@,
                                WalkNode(t.subjectType, t.subjectID, t.subjectRelation, node.depth + 1,
                                    Append(node.path, FmtNode(t.subjectType, t.subjectID, t.subjectRelation))))],
                            node, tuples, i + 1, req)
             ELSE TupleLoop([w EXCEPT !.queue = Append(@,
                                WalkNode(t.subjectType, t.subjectID, node.relation, node.depth + 1,
                                    Append(node.path, FmtSubject(t.subjectType, t.subjectID))))],
                            node, tuples, i + 1, req)

\* an iteration of Walk's loop without the visited set
WalkStepNoVisited(st, tenantID, req, maxDepth, order, w) ==
    IF Len(w.queue) = 0 THEN [w EXCEPT !.status = "denied"]
    ELSE LET node == Head(w.queue)
             popped == [w EXCEPT !.queue = Tail(@)]
             visitKey == FmtNode(node.objectType, node.objectID, node.relation)
         IN  IF node.depth > maxDepth THEN [popped EXCEPT !.status = "depth_exceeded"]
             ELSE TupleLoop([popped EXCEPT !.visited = @ \cup {visitKey},
                                           !.expanded = Append(@, <<node.objectType, node.objectID, node.relation>>)],
                            node,
                            ListRelationSubjects(st, tenantID, node.objectType, node.objectID, node.relation, order),
                            1, req)

\* one iteration of the loop of bfsGraphWalker.Walk (the loop test included:
\* an empty queue ends the walk with false, "", nil)
WalkStep(st, tenantID, req, maxDepth, order, w) ==
    IF Len(w.queue) = 0 THEN [w EXCEPT !.status = "denied"]
    ELSE LET node == Head(w.queue)
             popped == [w EXCEPT !.queue = Tail(@)]
             visitKey == FmtNode(node.objectType, node.objectID, node.relation)
         IN  IF node.depth > maxDepth THEN [popped EXCEPT !.status = "depth_exceeded"]
             ELSE IF visitKey \in w.visited THEN popped
             ELSE TupleLoop([popped EXCEPT !.visited = @ \cup {visitKey},
                                           !.expanded = Append(@, <<node.objectType, node.objectID, node.relation>>)],
                            node,
                            ListRelationSubjects(st, tenantID, node.objectType, node.objectID, node.relation, order),
                            1, req)

\* the loop of Walk run to its return
RECURSIVE WalkLoop(_, _, _, _, _, _)
WalkLoop(st, tenantID, req, maxDepth, order, w) ==
    IF w.status # "running" THEN w
    ELSE WalkLoop(st, tenantID, req, maxDepth, order, WalkStep(st, tenantID, req, maxDepth, order, w))

\* bfsGraphWalker.Walk: status "allowed" is (true, path, nil), "denied" is
\* (false, "", nil), "depth_exceeded" is (false, "", ErrGraphDepthExceeded)
Walk(st, tenantID, req, maxDepth, order) ==
    WalkLoop(st, tenantID, req, maxDepth, order, WalkStart(req))

\* DefaultGraphWalker: a non-positive depth becomes 10
DefaultGraphWalker(maxDepth) == IF maxDepth <= 0 THEN 10 ELSE maxDepth

\* Engine.evaluateReBAC: (result, err); the memory store's lookups do not
\* fail, and the walker's ErrGraphDepthExceeded is not returned
evaluateReBAC(st, tenantID, req, maxDepth, order) ==
    IF CheckDirectRelation(st, tenantID, req.resource.type, req.resource.id, req.action.name,
                           req.subject.kind, req.subject.id)
    THEN [res |-> CheckResult(TRUE, DecisionAllow, NoText,
                      <<MatchInfo("rebac", "", <<"direct relation">>)>>), err |-> "nil"]
    ELSE LET w == Walk(st, tenantID, req, maxDepth, order)
         IN  IF w.status = "allowed"
             THEN [res |-> CheckResult(TRUE, DecisionAllow, NoText,
                               <<MatchInfo("rebac", "", <<"transitive: ">> \o w.path)>>), err |-> "nil"]
             ELSE [res |-> CheckResult(FALSE, DecisionDenyRelation, <<"no relation found">>, <<>>),
                   err |-> "nil"]

\* Engine.evaluateABAC: (result, err)
evaluateABAC(st, tenantID, req, order) ==
    Evaluate(ListActivePolicies(st, tenantID, order), req)

----------------------------------------------------------------------------
(* Engine.Check                                                            *)

\* Engine.Check of an engine without a cache and without plugins (NewEngine's
\* defaults): the sub-results, the merged result and the error.  cfg holds
\* Config's EnableRBAC, EnableReBAC, EnableABAC and MaxGraphDepth; ord holds
\* the iteration orders of the store's maps during this call.
Check(st, tenantID, req, cfg, ord) ==
    LET rbac == IF cfg.rbac THEN evaluateRBAC(st, tenantID, req, ord)
                ELSE [res |-> Nil, err |-> "nil"]
        rebac == IF cfg.rebac
                 THEN evaluateReBAC(st, tenantID, req, DefaultGraphWalker(cfg.maxGraphDepth), ord.relations)
                 ELSE [res |-> Nil, err |-> "nil"]
        abac == IF cfg.abac THEN evaluateABAC(st, tenantID, req, ord.policies)
                ELSE [res |-> Nil, err |-> "nil"]
    IN  IF rbac.err # "nil" THEN [res |-> Nil, err |-> <<"warden rbac: ", rbac.err>>,
                                  rbac |-> Nil, rebac |-> Nil, abac |-> Nil]
        ELSE IF rebac.err # "nil" THEN [res |-> Nil, err |-> <<"warden rebac: ", rebac.err>>,
                                        rbac |-> rbac.res, rebac |-> Nil, abac |-> Nil]
        ELSE IF abac.err # "nil" THEN [res |-> Nil, err |-> <<"warden abac: ", abac.err>>,
                                       rbac |-> rbac.res, rebac |-> rebac.res, abac |-> Nil]
        ELSE [res |-> mergeDecisions(rbac.res, rebac.res, abac.res), err |-> <<>>,
              rbac |-> rbac.res, rebac |-> rebac.res, abac |-> abac.res]

----------------------------------------------------------------------------
(* Bounds and the values the model draws from                              *)

MaxAssignments == 2   \* assignments in a store of the RBAC family
MaxTuples == 2        \* relation tuples in a store of the ReBAC family
MaxPolicies == 2      \* policies in a store of the ABAC family
MaxTime == 2          \* the clock of SpecExpiry runs from 1 to MaxTime

\* tenant ids: the empty tenant of a context without WithTenant, and "t"
TenantIDs == {<<>>, <<"t">>}

User == <<"user">>

\* Subject / Resource / Action / CheckRequest
Request(kind, sid, action, rtype, rid, ctx) ==
    [subject |-> [kind |-> kind, id |-> sid, attributes |-> <<>>],
     action |-> [name |-> action],
     resource |-> [type |-> rtype, id |-> rid, attributes |-> <<>>],
     context |-> ctx]

\* context maps: nil, and {"ip": "x"}
NoContext == <<>>
IpContext == (<<"ip">> :> StrVal(<<"x">>))

Requests ==
    {Request(User, <<"a">>, <<"r">>, <<"d">>, <<"1">>, NoContext),
     Request(User, <<"a">>, <<"r">>, <<"d">>, <<"2">>, NoContext),
     Request(User, <<"b">>, <<"r">>, <<"d">>, <<"1">>, NoContext),
     Request(User, <<"a">>, <<"r">>, <<"d">>, <<"1">>, IpContext)}

\* Config: DefaultConfig, and RBAC alone
DefaultMaxGraphDepth == 10
Config(rbac, rebac, abac, depth) ==
    [rbac |-> rbac, rebac |-> rebac, abac |-> abac, maxGraphDepth |-> depth]
Configs ==
    {Config(TRUE, TRUE, TRUE, DefaultMaxGraphDepth), Config(TRUE, FALSE, FALSE, DefaultMaxGraphDepth)}

\* role.Role, permission.Permission, assignment.Assignment, relation.Tuple,
\* policy.Policy, policy.SubjectMatch, policy.Condition (the fields the
\* engine and the store's queries read)
Role(tenant, parent) == [tenant |-> tenant, parent |-> parent]
Permission(tenant, resource, action) == [tenant |-> tenant, resource |-> resource, action |-> action]
Assignment(tenant, sid, role, rtype, rid, expiresAt) ==
    [tenant |-> tenant, subjectKind |-> User, subjectID |-> sid, role |-> role,
     resourceType |-> rtype, resourceID |-> rid, expiresAt |-> expiresAt]
Tuple(tenant, otype, oid, rel, stype, sid, srel) ==
    [tenant |-> tenant, objectType |-> otype, objectID |-> oid, relation |-> rel,
     subjectType |-> stype, subjectID |-> sid, subjectRelation |-> srel]
Policy(id, tenant, name, effect, isActive, subjects, actions, resources, conditions) ==
    [id |-> id, tenant |-> tenant, name |-> name, effect |-> effect, isActive |-> isActive,
     subjects |-> subjects, actions |-> actions, resources |-> resources,
     conditions |-> conditions]
SubjectMatch(kind, sid, role) == [kind |-> kind, id |-> sid, role |-> role]
Condition(field, operator, value) == [field |-> field, operator |-> operator, value |-> value]

\* the empty map
EmptyMap == <<>>

\* the maps m restricted to the keys in keep
Restrict(m, keep) == [k \in DOMAIN m \cap keep |-> m[k]]

\* the sub-maps of pool with at most n keys
SubMaps(pool, n) == {Restrict(pool, K) : K \in {K \in SUBSET DOMAIN pool : Cardinality(K) <= n}}

\* the role, permission and attachment maps of the RBAC family
RBACSetup(r, p, rp) == [roles |-> r, permissions |-> p, rolePermissions |-> rp]

PermRead == Permission(<<"t">>, <<"d">>, <<"r">>)

RBACSetups ==
    {\* nothing stored
     RBACSetup(EmptyMap, EmptyMap, EmptyMap),
     \* R1 grants d:r
     RBACSetup(("R1" :> Role(<<"t">>, NilPtr)), ("P1" :> PermRead), ("R1" :> {"P1"})),
     \* R1 grants d:*
     RBACSetup(("R1" :> Role(<<"t">>, NilPtr)),
               ("P1" :> Permission(<<"t">>, <<"d">>, <<"*">>)), ("R1" :> {"P1"})),
     \* R1 grants d:w
     RBACSetup(("R1" :> Role(<<"t">>, NilPtr)),
               ("P1" :> Permission(<<"t">>, <<"d">>, <<"w">>)), ("R1" :> {"P1"})),
     \* d:r exists and is attached to no role
     RBACSetup(("R1" :> Role(<<"t">>, NilPtr)), ("P1" :> PermRead), EmptyMap),
     \* the permission attached to R1 does not exist
     RBACSetup(("R1" :> Role(<<"t">>, NilPtr)), EmptyMap, ("R1" :> {"P1"})),
     \* R1 inherits d:r from its parent R2
     RBACSetup(("R1" :> Role(<<"t">>, Ptr("R2"))) @@ ("R2" :> Role(<<"t">>, NilPtr)),
               ("P1" :> PermRead), ("R2" :> {"P1"})),
     \* the parent chain is a cycle
     RBACSetup(("R1" :> Role(<<"t">>, Ptr("R2"))) @@ ("R2" :> Role(<<"t">>, Ptr("R1"))),
               ("P1" :> PermRead), ("R2" :> {"P1"})),
     \* the parent of R1 is a role of the empty tenant
     RBACSetup(("R1" :> Role(<<"t">>, Ptr("R2"))) @@ ("R2" :> Role(<<>>, NilPtr)),
               ("P1" :> PermRead), ("R2" :> {"P1"})),
     \* the permission attached to R1 belongs to the empty tenant
     RBACSetup(("R1" :> Role(<<"t">>, NilPtr)),
               ("P1" :> Permission(<<>>, <<"d">>, <<"r">>)), ("R1" :> {"P1"})),
     \* R1 is a role of the empty tenant
     RBACSetup(("R1" :> Role(<<>>, NilPtr)), ("P1" :> PermRead), ("R1" :> {"P1"})),
     \* R1 has an attachment and no role record
     RBACSetup(EmptyMap, ("P1" :> PermRead), ("R1" :> {"P1"}))}

AssignmentPool ==
    ("A1" :> Assignment(<<"t">>, <<"a">>, "R1", <<>>, <<>>, NilPtr)) @@
    ("A2" :> Assignment(<<"t">>, <<"a">>, "R1", <<"d">>, <<"1">>, NilPtr)) @@
    ("A3" :> Assignment(<<"t">>, <<"a">>, "R2", <<>>, <<>>, NilPtr)) @@
    ("A4" :> Assignment(<<>>, <<"a">>, "R1", <<>>, <<>>, NilPtr)) @@
    ("A5" :> Assignment(<<"t">>, <<"b">>, "R1", <<>>, <<>>, NilPtr)) @@
    ("A6" :> Assignment(<<"t">>, <<"a">>, "R1", <<>>, <<>>, Ptr(1)))

TuplePool ==
    ("T1" :> Tuple(<<"t">>, <<"d">>, <<"1">>, <<"r">>, User, <<"a">>, <<>>)) @@
    ("T2" :> Tuple(<<"t">>, <<"d">>, <<"1">>, <<"r">>, <<"g">>, <<"1">>, <<"m">>)) @@
    ("T3" :> Tuple(<<"t">>, <<"g">>, <<"1">>, <<"m">>, User, <<"a">>, <<>>)) @@
    ("T4" :> Tuple(<<>>, <<"d">>, <<"1">>, <<"r">>, User, <<"a">>, <<>>)) @@
    ("T5" :> Tuple(<<"t">>, <<"d">>, <<"1">>, <<"r">>, User, <<"b">>, <<>>))

PolicyPool ==
    ("X1" :> Policy("X1", <<"t">>, "allow-all", EffectAllow, TRUE, <<>>, <<<<"*">>>>, <<>>, <<>>)) @@
    ("X2" :> Policy("X2", <<"t">>, "deny-ip", EffectDeny, TRUE, <<>>, <<>>, <<>>,
                    <<Condition(<<"context", ".", "ip">>, "eq", StrVal(<<"x">>))>>)) @@
    ("X3" :> Policy("X3", <<"t">>, "deny-b", EffectDeny, TRUE,
                    <<SubjectMatch(User, <<"b">>, <<>>)>>, <<>>, <<<<"d", ":", "*">>>>, <<>>)) @@
    ("X4" :> Policy("X4", <<"t">>, "deny-off", EffectDeny, FALSE, <<>>, <<>>, <<>>, <<>>)) @@
    ("X5" :> Policy("X5", <<>>, "deny-all", EffectDeny, TRUE, <<>>, <<>>, <<>>, <<>>)) @@
    ("X6" :> Policy("X6", <<"t">>, "allow-doc2", EffectAllow, TRUE, <<>>, <<<<"r">>>>,
                    <<<<"d", ":", "2">>>>, <<>>))

\* a store: the maps of memory.Store the engine reads
Store(r, p, rp, a, t, x) ==
    [roles |-> r, permissions |-> p, rolePermissions |-> rp, assignments |-> a,
     relations |-> t, policies |-> x]

\* stores that differ in their RBAC data and hold nothing else
RBACStores ==
    {Store(s.roles, s.permissions, s.rolePermissions, a, EmptyMap, EmptyMap) :
        s \in RBACSetups, a \in SubMaps(AssignmentPool, MaxAssignments)}

\* stores that differ in their relation tuples
ReBACStores ==
    {Store(EmptyMap, EmptyMap, EmptyMap, EmptyMap, t, EmptyMap) : t \in SubMaps(TuplePool, MaxTuples)}

\* stores that differ in their policies
ABACStores ==
    {Store(EmptyMap, EmptyMap, EmptyMap, EmptyMap, EmptyMap, x) : x \in SubMaps(PolicyPool, MaxPolicies)}

\* stores in which all three models have data: RBAC grants d:r to user a (or
\* the subject has no role), a is related to d:1 directly or through g:1 (or
\* not at all), and the policies vary
MixedStores ==
    {Store(("R1" :> Role(<<"t">>, NilPtr)), ("P1" :> PermRead), ("R1" :> {"P1"}), a, t, x) :
        a \in {EmptyMap, Restrict(AssignmentPool, {"A1"})},
        t \in {EmptyMap, Restrict(TuplePool, {"T1"}), Restrict(TuplePool, {"T2", "T3"})},
        x \in SubMaps(PolicyPool, MaxPolicies)}

Stores == RBACStores \cup ReBACStores \cup ABACStores \cup MixedStores

\* the store of the current state
St == Store(roles, permissions, rolePermissions, assignments, relations, policies)

\* the iteration orders of the maps evaluateRBAC ranges over
RBACOrders(st) ==
    [assignments : Orderings(DOMAIN st.assignments),
     permissions : Orderings(DOMAIN st.permissions)]

\* the iteration orders the maps of a store can have during one call
Orders(st) ==
    [assignments : Orderings(DOMAIN st.assignments),
     permissions : Orderings(DOMAIN st.permissions),
     relations : Orderings(DOMAIN st.relations),
     policies : Orderings(DOMAIN st.policies)]

----------------------------------------------------------------------------
(* The engine over a store: Check, and the store's mutators                *)

\* the values a variable has in the specifications that do not use it
NoCall == [done |-> FALSE]

ExtIdle ==
    /\ cache = NoCall
    /\ plugins = NoCall
    /\ trace = NoCall
    /\ call = NoCall
    /\ heap = NoCall
    /\ config = NoCall

CallsIdle ==
    /\ ExtIdle
    /\ mergeIn = NoCall
    /\ mergeOut = NoCall
    /\ evalIn = NoCall
    /\ evalOut = NoCall
    /\ inherit = NoCall
    /\ walk = NoCall

StoreIs(st) ==
    /\ roles = st.roles
    /\ permissions = st.permissions
    /\ rolePermissions = st.rolePermissions
    /\ assignments = st.assignments
    /\ relations = st.relations
    /\ policies = st.policies

Init ==
    /\ \E st \in Stores : StoreIs(st)
    /\ now = 1
    /\ checked = NoCall
    /\ CallsIdle

\* The model runs one call at a time: a call starts when no Check is waiting
\* to be handed back (checked = NoCall).

\* Engine.Check(ctx, req) with WithTenant(ctx, "", tenantID) on an engine
\* configured with cfg; the call reads the store and returns
CheckCall(tenantID, req, cfg, ord) ==
    /\ checked = NoCall
    /\ checked' = [done |-> TRUE, tenant |-> tenantID, req |-> req, cfg |-> cfg,
                   out |-> Check(St, tenantID, req, cfg, ord)]
    /\ UNCHANGED <<extVars, storeVars, now, mergeIn, mergeOut, evalIn, evalOut, inherit, walk>>

\* the caller takes the result of its Check
CheckReturn ==
    /\ checked # NoCall
    /\ checked' = NoCall
    /\ UNCHANGED <<extVars, storeVars, now, mergeIn, mergeOut, evalIn, evalOut, inherit, walk>>

\* Store.DeleteRolesByTenant
DeleteRolesByTenant(tenantID) ==
    LET gone == {k \in DOMAIN roles : roles[k].tenant = tenantID}
    IN  /\ checked = NoCall
        /\ roles' = Restrict(roles, DOMAIN roles \ gone)
        /\ rolePermissions' = Restrict(rolePermissions, DOMAIN rolePermissions \ gone)
        /\ UNCHANGED <<extVars, permissions, assignments, relations, policies, now, checked,
                       mergeIn, mergeOut, evalIn, evalOut, inherit, walk>>

\* Store.DeletePermissionsByTenant
DeletePermissionsByTenant(tenantID) ==
    LET gone == {k \in DOMAIN permissions : permissions[k].tenant = tenantID}
    IN  /\ checked = NoCall
        /\ permissions' = Restrict(permissions, DOMAIN permissions \ gone)
        /\ rolePermissions' = [r \in DOMAIN rolePermissions |-> rolePermissions[r] \ gone]
        /\ UNCHANGED <<extVars, roles, assignments, relations, policies, now, checked,
                       mergeIn, mergeOut, evalIn, evalOut, inherit, walk>>

\* Store.DeleteAssignmentsByTenant
DeleteAssignmentsByTenant(tenantID) ==
    /\ checked = NoCall
    /\ assignments' = Restrict(assignments,
                          {k \in DOMAIN assignments : assignments[k].tenant # tenantID})
    /\ UNCHANGED <<extVars, roles, permissions, rolePermissions, relations, policies, now, checked,
                   mergeIn, mergeOut, evalIn, evalOut, inherit, walk>>

\* Store.DeleteRelationsByTenant
DeleteRelationsByTenant(tenantID) ==
    /\ checked = NoCall
    /\ relations' = Restrict(relations, {k \in DOMAIN relations : relations[k].tenant # tenantID})
    /\ UNCHANGED <<extVars, roles, permissions, rolePermissions, assignments, policies, now, checked,
                   mergeIn, mergeOut, evalIn, evalOut, inherit, walk>>

\* Store.DeletePoliciesByTenant
DeletePoliciesByTenant(tenantID) ==
    /\ checked = NoCall
    /\ policies' = Restrict(policies, {k \in DOMAIN policies : policies[k].tenant # tenantID})
    /\ UNCHANGED <<extVars, roles, permissions, rolePermissions, assignments, relations, now, checked,
                   mergeIn, mergeOut, evalIn, evalOut, inherit, walk>>

\* time.Time.Before on an optional expiry: ExpiresAt != nil && ExpiresAt.Before(t)
Expired(a, t) == a.expiresAt # NilPtr /\ Deref(a.expiresAt) < t

\* Store.DeleteExpiredAssignments(now)
DeleteExpiredAssignments ==
    /\ checked = NoCall
    /\ assignments' = Restrict(assignments,
                          {k \in DOMAIN assignments : ~Expired(assignments[k], now)})
    /\ UNCHANGED <<extVars, roles, permissions, rolePermissions, relations, policies, now, checked,
                   mergeIn, mergeOut, evalIn, evalOut, inherit, walk>>

\* the wall clock advances
Tick ==
    /\ checked = NoCall
    /\ now < MaxTime
    /\ now' = now + 1
    /\ UNCHANGED <<extVars, storeVars, checked, mergeIn, mergeOut, evalIn, evalOut, inherit, walk>>

Next ==
    \/ \E tenantID \in TenantIDs, req \in Requests, cfg \in Configs, ord \in Orders(St) :
          CheckCall(tenantID, req, cfg, ord)
    \/ \E tenantID \in TenantIDs : DeleteRolesByTenant(tenantID)
    \/ \E tenantID \in TenantIDs : DeletePermissionsByTenant(tenantID)
    \/ \E tenantID \in TenantIDs : DeleteAssignmentsByTenant(tenantID)
    \/ \E tenantID \in TenantIDs : DeleteRelationsByTenant(tenantID)
    \/ \E tenantID \in TenantIDs : DeletePoliciesByTenant(tenantID)
    \/ CheckReturn

Spec == Init /\ [][Next]_vars

\* the engine over a store of assignments while the clock runs
InitExpiry ==
    /\ \E st \in RBACStores : StoreIs(st)
    /\ now = 1
    /\ checked = NoCall
    /\ CallsIdle

NextExpiry ==
    \/ \E tenantID \in TenantIDs, req \in Requests, cfg \in Configs, ord \in Orders(St) :
          CheckCall(tenantID, req, cfg, ord)
    \/ CheckReturn
    \/ DeleteExpiredAssignments
    \/ Tick

SpecExpiry == InitExpiry /\ [][NextExpiry]_vars

----------------------------------------------------------------------------
(* Properties of the engine over a store                                   *)

\* a policy applies to a request: its subject, action and resource matchers
\* match and all its conditions hold
PolicyApplies(pol, req) ==
    /\ matchesSubject(pol, req)
    /\ matchesAction(pol, req)
    /\ matchesResource(pol, req)
    /\ evaluateConditions(pol.conditions, 1, req) = Ok(TRUE)

\* some active deny policy of the tenant applies to the request
DenyPolicyApplies(st, tenantID, req) ==
    \E p \in DOMAIN st.policies :
        /\ st.policies[p].tenant = tenantID
        /\ st.policies[p].isActive
        /\ st.policies[p].effect = EffectDeny
        /\ PolicyApplies(st.policies[p], req)

\* C1: explicit deny wins.  A Check that ran with ABAC enabled and returned a
\* result, for a request to which an active deny policy of the request's
\* tenant applies, returned allowed = false with decision deny_explicit,
\* whatever RBAC and ReBAC returned.
C1_ExplicitDenyWins ==
    (/\ checked # NoCall
     /\ checked.cfg.abac
     /\ checked.out.err = <<>>
     /\ DenyPolicyApplies(St, checked.tenant, checked.req))
    => (/\ ~checked.out.res.allowed
        /\ checked.out.res.decision = DecisionDenyExplicit)

\* a Check that RBAC and ReBAC both allowed and a deny policy turned down
C1_Witness ==
    /\ checked # NoCall
    /\ checked.cfg.abac
    /\ checked.out.err = <<>>
    /\ DenyPolicyApplies(St, checked.tenant, checked.req)
    /\ IsAllowed(checked.out.rbac)
    /\ IsAllowed(checked.out.rebac)
    /\ checked.out.res.decision = DecisionDenyExplicit

\* what a caller sees of a Check: an error, or allowed and the decision
OutcomeOf(c) == IF c.err # <<>> THEN <<"error">> ELSE <<c.res.allowed, c.res.decision>>

\* the outcomes Check can have on a store, over the iteration orders
Outcomes(st, tenantID, req, cfg) ==
    {OutcomeOf(Check(st, tenantID, req, cfg, ord)) : ord \in Orders(st)}

\* the store after the step
StNext == Store(roles', permissions', rolePermissions', assignments', relations', policies')

\* C2: tenant noninterference.  Deleting the roles, permissions, assignments,
\* relation tuples or policies of a tenant other than T never changes the
\* outcome of a Check in T.
C2_TenantNoninterference ==
    [][\A other \in TenantIDs :
          (\/ DeleteRolesByTenant(other)
           \/ DeletePermissionsByTenant(other)
           \/ DeleteAssignmentsByTenant(other)
           \/ DeleteRelationsByTenant(other)
           \/ DeletePoliciesByTenant(other))
          => \A tenantID \in TenantIDs \ {other}, req \in Requests, cfg \in Configs :
                Outcomes(St, tenantID, req, cfg) = Outcomes(StNext, tenantID, req, cfg)]_vars

\* the assignments that give the subject a role for a check on the request's
\* resource: those of the tenant and subject that are global or scoped to
\* exactly that resource type and id
Contributing(st, tenantID, req) ==
    {a \in DOMAIN st.assignments :
        /\ st.assignments[a].tenant = tenantID
        /\ st.assignments[a].subjectKind = req.subject.kind
        /\ st.assignments[a].subjectID = req.subject.id
        /\ \/ st.assignments[a].resourceType = <<>> /\ st.assignments[a].resourceID = <<>>
           \/ /\ st.assignments[a].resourceType = req.resource.type
              /\ st.assignments[a].resourceID = req.resource.id}

\* the role r and its ancestors at most n parent links away
RECURSIVE AncestorsWithin(_, _, _)
AncestorsWithin(rolesMap, r, n) ==
    {r} \cup (IF n = 0 \/ r \notin DOMAIN rolesMap THEN {}
              ELSE IF rolesMap[r].parent = NilPtr THEN {}
              ELSE AncestorsWithin(rolesMap, Deref(rolesMap[r].parent), n - 1))

\* the roles in effect for the request
EffectiveRoles(st, tenantID, req) ==
    UNION {AncestorsWithin(st.roles, st.assignments[a].role, MaxRoleDepth) :
              a \in Contributing(st, tenantID, req)}

\* a permission name covers the required name: it is equal to it, or it ends
\* in "*" and the required name starts with what precedes the "*"
Covers(permName, required) ==
    \/ permName = required
    \/ /\ Len(permName) > 0
       /\ permName[Len(permName)] = "*"
       /\ Len(required) >= Len(permName) - 1
       /\ \A i \in 1..(Len(permName) - 1) : required[i] = permName[i]

\* the effective roles with an attached, existing permission that covers
\* resourceType:action
GrantingRoles(st, tenantID, req) ==
    {r \in EffectiveRoles(st, tenantID, req) :
        /\ r \in DOMAIN st.rolePermissions
        /\ \E p \in st.rolePermissions[r] \cap DOMAIN st.permissions :
              Covers(st.permissions[p].resource \o <<":">> \o st.permissions[p].action,
                     req.resource.type \o <<":">> \o req.action.name)}

\* the RBAC result res is the one the store's data calls for
RBACAgrees(st, tenantID, req, res) ==
    IF Contributing(st, tenantID, req) = {}
    THEN res = CheckResult(FALSE, DecisionDenyNoRoles, <<"subject has no roles">>, <<>>)
    ELSE IF GrantingRoles(st, tenantID, req) = {}
    THEN res = CheckResult(FALSE, DecisionDenyNoPerms, <<"no role grants required permission">>, <<>>)
    ELSE /\ res.allowed
         /\ res.decision = DecisionAllow
         /\ Len(res.matchedBy) = 1
         /\ res.matchedBy[1].source = "rbac"
         /\ res.matchedBy[1].ruleID \in GrantingRoles(st, tenantID, req)

\* C5: RBAC outcome.  evaluateRBAC returns deny_no_roles ("subject has no
\* roles") for a subject without a global or matching resource-scoped
\* assignment in the tenant, deny_no_perms ("no role grants required
\* permission") when no permission attached to an effective role covers
\* resourceType:action, and otherwise allow with one matched_by entry of
\* source "rbac" naming a granting role; so did the RBAC part of every Check.
C5_RBACOutcome ==
    /\ \A tenantID \in TenantIDs, req \in Requests, ord \in RBACOrders(St) :
          /\ evaluateRBAC(St, tenantID, req, ord).err = "nil"
          /\ RBACAgrees(St, tenantID, req, evaluateRBAC(St, tenantID, req, ord).res)
    /\ (checked # NoCall /\ checked.cfg.rbac)
          => RBACAgrees(St, checked.tenant, checked.req, checked.out.rbac)

\* a Check whose RBAC part allowed through a permission attached to the
\* parent of the assigned role
C5_Witness ==
    /\ checked # NoCall
    /\ checked.cfg.rbac
    /\ IsAllowed(checked.out.rbac)
    /\ \A a \in Contributing(St, checked.tenant, checked.req) :
          assignments[a].role # checked.out.rbac.matchedBy[1].ruleID

\* C7: resource-scoped assignments.  The roles the store lists for a check
\* are those of the subject's global assignments and of its assignments
\* scoped to exactly the request's resource type and id; a subject without
\* such an assignment (one whose assignments are all scoped to other
\* resources) is not allowed by RBAC, and one with a role that grants the
\* action through such an assignment is allowed.
C7_ResourceScopedAssignments ==
    \A tenantID \in TenantIDs, req \in Requests, ord \in RBACOrders(St) :
        LET listed == Range(ListRolesForSubject(St, tenantID, req.subject.kind, req.subject.id,
                                                ord.assignments))
                      \cup Range(ListRolesForSubjectOnResource(St, tenantID, req.subject.kind,
                                     req.subject.id, req.resource.type, req.resource.id,
                                     ord.assignments))
            out == evaluateRBAC(St, tenantID, req, ord).res
        IN  /\ listed = {St.assignments[a].role : a \in Contributing(St, tenantID, req)}
            /\ Contributing(St, tenantID, req) = {} => ~out.allowed
            /\ GrantingRoles(St, tenantID, req) # {} => out.allowed

\* the subject's only assignment is scoped to d:1; a Check on d:1 was allowed
\* by RBAC and RBAC does not allow d:2
C7_Witness ==
    /\ checked # NoCall
    /\ checked.cfg.rbac
    /\ checked.req.resource.id = <<"1">>
    /\ IsAllowed(checked.out.rbac)
    /\ \A a \in Contributing(St, checked.tenant, checked.req) :
          assignments[a].resourceType = <<"d">> /\ assignments[a].resourceID = <<"1">>
    /\ \A ord \in RBACOrders(St) :
          ~evaluateRBAC(St, checked.tenant,
                        [checked.req EXCEPT !.resource.id = <<"2">>], ord).res.allowed

\* the store without the assignments that have expired at time t
Unexpired(st, t) ==
    [st EXCEPT !.assignments =
        Restrict(st.assignments, {a \in DOMAIN st.assignments : ~Expired(st.assignments[a], t)})]

\* C8: expired assignments do not contribute.  Whenever RBAC allows a
\* request, it also allows it on the store without the assignments whose
\* expiresAt is before now, whether or not DeleteExpiredAssignments has run.
C8_ExpiredDoNotContribute ==
    \A tenantID \in TenantIDs, req \in Requests, ord \in RBACOrders(St) :
        evaluateRBAC(St, tenantID, req, ord).res.allowed
        => GrantingRoles(Unexpired(St, now), tenantID, req) # {}

----------------------------------------------------------------------------
(* mergeDecisions on its own                                               *)

\* the results an evaluator of the given source can hand to mergeDecisions:
\* nil, and results of either verdict with and without a reason
MergeDecisions == {DecisionAllow, DecisionDenyExplicit, DecisionDenyNoPerms}
MergeInputs(source) ==
    {Nil} \cup {CheckResult(allowed, decision, reason, <<MatchInfo(source, "", NoText)>>) :
                   allowed \in BOOLEAN, decision \in MergeDecisions,
                   reason \in {NoText, <<"reason of ", source>>}}

StoreIdle ==
    /\ ExtIdle
    /\ StoreIs(Store(EmptyMap, EmptyMap, EmptyMap, EmptyMap, EmptyMap, EmptyMap))
    /\ now = 1
    /\ checked = NoCall

InitMerge ==
    /\ StoreIdle
    /\ mergeIn \in [done : {TRUE}, rbac : MergeInputs("rbac"), rebac : MergeInputs("rebac"),
                    abac : MergeInputs("abac")]
    /\ mergeOut = NoCall
    /\ evalIn = NoCall
    /\ evalOut = NoCall
    /\ inherit = NoCall
    /\ walk = NoCall

\* the call mergeDecisions(rbac, rebac, abac)
MergeCall ==
    /\ mergeOut = NoCall
    /\ mergeOut' = [done |-> TRUE, res |-> mergeDecisions(mergeIn.rbac, mergeIn.rebac, mergeIn.abac)]
    /\ UNCHANGED <<extVars, storeVars, now, checked, mergeIn, evalIn, evalOut, inherit, walk>>

NextMerge == MergeCall

SpecMerge == InitMerge /\ [][NextMerge]_vars

\* the fixed-precedence reference: the inputs in the order RBAC, ReBAC, ABAC
MergeOrder(in) == <<in.rbac, in.rebac, in.abac>>
AllowedAt(in) == {i \in 1..3 : MergeOrder(in)[i] # Nil /\ MergeOrder(in)[i].allowed}
ReasonAt(in) == {i \in 1..3 : MergeOrder(in)[i] # Nil /\ MergeOrder(in)[i].reason # NoText}
Least(S) == CHOOSE i \in S : \A j \in S : i <= j
MergeReference(in) ==
    IF AllowedAt(in) # {} THEN MergeOrder(in)[Least(AllowedAt(in))]
    ELSE IF ReasonAt(in) # {} THEN MergeOrder(in)[Least(ReasonAt(in))]
    ELSE CheckResult(FALSE, DecisionDenyDefault, <<"no matching allow rule">>, <<>>)

AbacDeniesExplicitly(in) == in.abac # Nil /\ in.abac.decision = DecisionDenyExplicit

\* C3: mergeDecisions equals the fixed-precedence reference.  When ABAC is
\* not an explicit deny the merged result is the first allowed input in the
\* order RBAC, ReBAC, ABAC, else the first input with a reason, else the
\* default deny "no matching allow rule"; and a merged result is allowed only
\* if some input is allowed.
C3_MergePrecedence ==
    mergeOut # NoCall =>
        /\ ~AbacDeniesExplicitly(mergeIn) => mergeOut.res = MergeReference(mergeIn)
        /\ mergeOut.res.allowed => AllowedAt(mergeIn) # {}

\* a merge in which RBAC denies with a reason and both ReBAC and ABAC allow:
\* the result is ReBAC's
C3_Witness ==
    /\ mergeOut # NoCall
    /\ ~AbacDeniesExplicitly(mergeIn)
    /\ mergeIn.rbac # Nil /\ ~mergeIn.rbac.allowed /\ mergeIn.rbac.reason # NoText
    /\ IsAllowed(mergeIn.rebac)
    /\ IsAllowed(mergeIn.abac)
    /\ mergeOut.res = mergeIn.rebac

----------------------------------------------------------------------------
(* conditionEvaluator.Evaluate on its own                                  *)

MaxEvalPolicies == 3   \* policies in the list passed to Evaluate

\* the policies a list is made of, by kind; a policy's id is its position in
\* the list.  The store persists any Effect string (CreatePolicy and
\* UpdatePolicy do not look at it), "audit" stands for the others.
PolicyKinds ==
    {"allow-all", "deny-all", "deny-off", "allow-w", "deny-ip", "audit-all", "deny-b", "allow-bad"}

PolicyOfKind(kind, id) ==
    IF kind = "allow-all" THEN Policy(id, <<>>, kind, EffectAllow, TRUE, <<>>, <<>>, <<>>, <<>>)
    ELSE IF kind = "deny-all" THEN Policy(id, <<>>, kind, EffectDeny, TRUE, <<>>, <<>>, <<<<"*">>>>, <<>>)
    ELSE IF kind = "deny-off" THEN Policy(id, <<>>, kind, EffectDeny, FALSE, <<>>, <<>>, <<>>, <<>>)
    ELSE IF kind = "allow-w" THEN Policy(id, <<>>, kind, EffectAllow, TRUE, <<>>, <<<<"w">>>>, <<>>, <<>>)
    ELSE IF kind = "deny-ip" THEN
        Policy(id, <<>>, kind, EffectDeny, TRUE, <<>>, <<<<"r">>>>, <<<<"d", ":", "1">>>>,
               <<Condition(<<"subject", ".", "kind">>, "eq", StrVal(User)),
                 Condition(<<"context", ".", "ip">>, "starts_with", StrVal(<<"x">>))>>)
    ELSE IF kind = "audit-all" THEN Policy(id, <<>>, kind, "audit", TRUE, <<>>, <<>>, <<>>, <<>>)
    ELSE IF kind = "deny-b" THEN
        Policy(id, <<>>, kind, EffectDeny, TRUE, <<SubjectMatch(User, <<"b">>, <<>>)>>, <<>>, <<>>, <<>>)
    ELSE Policy(id, <<>>, kind, EffectAllow, TRUE, <<>>, <<>>, <<>>,
                <<Condition(<<"resource", ".", "id">>, "like", StrVal(<<"1">>))>>)

PolicyLists ==
    UNION {{[i \in 1..n |-> PolicyOfKind(kinds[i], i)] : kinds \in [1..n -> PolicyKinds]} :
              n \in 0..MaxEvalPolicies}

InitABAC ==
    /\ StoreIdle
    /\ mergeIn = NoCall
    /\ mergeOut = NoCall
    /\ evalIn \in [done : {TRUE}, policies : PolicyLists, req : Requests]
    /\ evalOut = NoCall
    /\ inherit = NoCall
    /\ walk = NoCall

\* the call Evaluate(ctx, policies, req)
EvaluateCall ==
    /\ evalOut = NoCall
    /\ evalOut' = [done |-> TRUE, out |-> Evaluate(evalIn.policies, evalIn.req)]
    /\ UNCHANGED <<extVars, storeVars, now, checked, mergeIn, mergeOut, evalIn, inherit, walk>>

NextABAC == EvaluateCall

SpecABAC == InitABAC /\ [][NextABAC]_vars

\* the positions of the active policies of the given effect that apply
ApplyingAt(pols, req, effect) ==
    {i \in 1..Len(pols) :
        pols[i].isActive /\ pols[i].effect = effect /\ PolicyApplies(pols[i], req)}

\* C4: the ABAC verdict over a policy list.  An Evaluate that returns without
\* error returns deny_explicit naming the first active applying deny policy
\* if there is one, else allow naming the first active applying allow policy,
\* else nil; inactive and non-applying policies have no influence.
C4_AbacVerdict ==
    (evalOut # NoCall /\ evalOut.out.err = "nil") =>
        LET pols == evalIn.policies
            denies == ApplyingAt(pols, evalIn.req, EffectDeny)
            allows == ApplyingAt(pols, evalIn.req, EffectAllow)
            res == evalOut.out.res
        IN  IF denies # {}
            THEN /\ res # Nil
                 /\ ~res.allowed
                 /\ res.decision = DecisionDenyExplicit
                 /\ res.matchedBy[1].ruleID = pols[Least(denies)].id
            ELSE IF allows # {}
            THEN /\ res # Nil
                 /\ res.allowed
                 /\ res.decision = DecisionAllow
                 /\ res.matchedBy[1].ruleID = pols[Least(allows)].id
            ELSE res = Nil

----------------------------------------------------------------------------
(* resolveInheritedRoles on its own                                        *)

MaxChain == 22      \* roles in a parent chain
MaxAssigned == 2    \* role ids passed to resolveInheritedRoles

\* a parent chain of n roles 1 -> 2 -> ... -> n; the last role has no parent
\* ("top"), has role 1 as its parent ("cycle"), or names a parent without a
\* role record ("missing")
RoleChain(n, last) ==
    [i \in 1..n |->
        Role(<<"t">>, IF i < n THEN Ptr(i + 1)
                      ELSE IF last = "top" THEN NilPtr
                      ELSE IF last = "cycle" THEN Ptr(1)
                      ELSE Ptr(n + 1))]

AssignedLists(n) == UNION {[1..k -> 1..n] : k \in 1..MaxAssigned}

InitRoles ==
    /\ StoreIdle
    /\ mergeIn = NoCall
    /\ mergeOut = NoCall
    /\ evalIn = NoCall
    /\ evalOut = NoCall
    /\ \E n \in 1..MaxChain, last \in {"top", "cycle", "missing"} :
          \E assigned \in AssignedLists(n) :
              inherit = [done |-> FALSE, roles |-> RoleChain(n, last),
                         roleIDs |-> assigned, result |-> <<>>]
    /\ walk = NoCall

\* the call resolveInheritedRoles(ctx, roleIDs)
ResolveCall ==
    /\ inherit # NoCall
    /\ ~inherit.done
    /\ inherit' = [inherit EXCEPT !.done = TRUE,
                                  !.result = resolveInheritedRoles(inherit.roles, inherit.roleIDs)]
    /\ UNCHANGED <<extVars, storeVars, now, checked, mergeIn, mergeOut, evalIn, evalOut, walk>>

NextRoles == ResolveCall

SpecRoles == InitRoles /\ [][NextRoles]_vars

\* C6: role inheritance.  The expansion of the assigned roles contains every
\* assigned role and every ancestor at most 20 parent links above an assigned
\* role, each once.
C6_RoleInheritance ==
    inherit.done =>
        /\ \A i \in 1..Len(inherit.roleIDs) :
              AncestorsWithin(inherit.roles, inherit.roleIDs[i], MaxRoleDepth)
                  \subseteq Range(inherit.result)
        /\ \A i, j \in 1..Len(inherit.result) : i # j => inherit.result[i] # inherit.result[j]

----------------------------------------------------------------------------
(* bfsGraphWalker.Walk, one loop iteration at a time                       *)

MaxWalkTuples == 3   \* relation tuples in the store a walk runs over
MaxWalkDepth == 2    \* the walker's maxDepth is 1..MaxWalkDepth

\* the request of the walks: can user a do r on the resource of type "d"
\* with id "x:1"
WalkRequest == Request(User, <<"a">>, <<"r">>, <<"d">>, <<"x", ":", "1">>, NoContext)

\* tuples over the objects d/x:1 (the resource), f/1 and g/1, and over the
\* object of type "d:x" with id "1"
WalkTuplePool ==
    ("W1" :> Tuple(<<"t">>, <<"d">>, <<"x", ":", "1">>, <<"r">>, User, <<"a">>, <<>>)) @@
    ("W2" :> Tuple(<<"t">>, <<"d">>, <<"x", ":", "1">>, <<"r">>, <<"f">>, <<"1">>, <<"r">>)) @@
    ("W3" :> Tuple(<<"t">>, <<"d">>, <<"x", ":", "1">>, <<"r">>, <<"f">>, <<"1">>, <<>>)) @@
    ("W4" :> Tuple(<<"t">>, <<"d">>, <<"x", ":", "1">>, <<"r">>, <<"g">>, <<"1">>, <<"m">>)) @@
    ("W5" :> Tuple(<<"t">>, <<"f">>, <<"1">>, <<"r">>, User, <<"a">>, <<>>)) @@
    ("W6" :> Tuple(<<"t">>, <<"f">>, <<"1">>, <<"r">>, <<"d">>, <<"x", ":", "1">>, <<"r">>)) @@
    ("W7" :> Tuple(<<"t">>, <<"d">>, <<"x", ":", "1">>, <<"r">>, <<"g">>, <<"1">>, <<"r">>)) @@
    ("W8" :> Tuple(<<"t">>, <<"d">>, <<"x", ":", "1">>, <<"r">>, <<"d", ":", "x">>, <<"1">>, <<"r">>)) @@
    ("W9" :> Tuple(<<"t">>, <<"d", ":", "x">>, <<"1">>, <<"r">>, User, <<"a">>, <<>>))

InitWalk ==
    /\ \E t \in SubMaps(WalkTuplePool, MaxWalkTuples) :
          /\ StoreIs(Store(EmptyMap, EmptyMap, EmptyMap, EmptyMap, t, EmptyMap))
          /\ \E order \in Orderings(DOMAIN t), maxDepth \in 1..MaxWalkDepth :
                walk = [done |-> FALSE, tenant |-> <<"t">>, req |-> WalkRequest,
                        maxDepth |-> DefaultGraphWalker(maxDepth), order |-> order,
                        w |-> WalkStart(WalkRequest), rebac |-> Nil]
    /\ now = 1
    /\ checked = NoCall
    /\ mergeIn = NoCall
    /\ mergeOut = NoCall
    /\ evalIn = NoCall
    /\ evalOut = NoCall
    /\ inherit = NoCall
    /\ ExtIdle

\* one iteration of the loop of Walk
WalkIterate ==
    /\ walk # NoCall
    /\ walk.w.status = "running"
    /\ walk' = [walk EXCEPT !.w = WalkStep(St, walk.tenant, walk.req, walk.maxDepth, walk.order, walk.w)]
    /\ UNCHANGED <<extVars, storeVars, now, checked, mergeIn, mergeOut, evalIn, evalOut, inherit>>

\* evaluateReBAC of the same request over the same store, after the walk
ReBACCall ==
    /\ walk # NoCall
    /\ walk.w.status # "running"
    /\ ~walk.done
    /\ walk' = [walk EXCEPT !.done = TRUE,
                            !.rebac = evaluateReBAC(St, walk.tenant, walk.req, walk.maxDepth,
                                                    walk.order).res]
    /\ UNCHANGED <<extVars, storeVars, now, checked, mergeIn, mergeOut, evalIn, evalOut, inherit>>

NextWalk == WalkIterate \/ ReBACCall

SpecWalk == InitWalk /\ [][NextWalk]_vars

\* the loop runs on while the walk has not returned
SpecWalkFair == SpecWalk /\ WF_vars(WalkIterate)

\* the tuples stored on the node (type, id, rel) in the tenant
TuplesOn(st, tenantID, n) ==
    {st.relations[t] : t \in {t \in DOMAIN st.relations :
        /\ st.relations[t].tenant = tenantID
        /\ st.relations[t].objectType = n[1]
        /\ st.relations[t].objectID = n[2]
        /\ st.relations[t].relation = n[3]}}

\* the node a tuple stored on (type, id, rel) leads to
StepOver(n, t) ==
    <<t.subjectType, t.subjectID, IF t.subjectRelation # <<>> THEN t.subjectRelation ELSE n[3]>>

\* the nodes at the end of a chain of k tuples from the request's node
RECURSIVE NodesAt(_, _, _, _)
NodesAt(st, tenantID, req, k) ==
    IF k = 0 THEN {<<req.resource.type, req.resource.id, req.action.name>>}
    ELSE UNION {{StepOver(n, t) : t \in TuplesOn(st, tenantID, n)} :
                   n \in NodesAt(st, tenantID, req, k - 1)}

\* a chain from the request's node whose nodes have depth <= maxDepth and
\* whose last tuple has the request's subject
ChainExists(st, tenantID, req, maxDepth) ==
    \E k \in 0..maxDepth :
        \E n \in NodesAt(st, tenantID, req, k) :
            \E t \in TuplesOn(st, tenantID, n) :
                t.subjectType = req.subject.kind /\ t.subjectID = req.subject.id

\* C9: ReBAC reachability.  A walk that has returned returned allowed exactly
\* if such a chain exists; the path of an allowed walk starts with
\* resourceType:resourceID#action and ends with subjectKind:subjectID; and
\* when the direct tuple exists evaluateReBAC answers allow with detail
\* "direct relation" and the walk allows too.
C9_ReBACReachability ==
    (walk # NoCall /\ walk.w.status # "running") =>
        /\ (walk.w.status = "allowed") <=> ChainExists(St, walk.tenant, walk.req, walk.maxDepth)
        /\ walk.w.status = "allowed" =>
              /\ HasPrefix(walk.w.path, FmtNode(walk.req.resource.type, walk.req.resource.id,
                                                walk.req.action.name))
              /\ HasSuffix(walk.w.path, FmtSubject(walk.req.subject.kind, walk.req.subject.id))
        /\ (walk.done /\ CheckDirectRelation(St, walk.tenant, walk.req.resource.type,
                             walk.req.resource.id, walk.req.action.name,
                             walk.req.subject.kind, walk.req.subject.id)) =>
              /\ walk.rebac = CheckResult(TRUE, DecisionAllow, NoText,
                                  <<MatchInfo("rebac", "", <<"direct relation">>)>>)
              /\ walk.w.status = "allowed"

\* the node at the head of the queue is within the depth limit and this
\* iteration skips it
SkipsHead ==
    /\ WalkIterate
    /\ Len(walk.w.queue) > 0
    /\ Head(walk.w.queue).depth <= walk.maxDepth
    /\ walk'.w.expanded = walk.w.expanded

\* C10: ReBAC termination.  Walk returns (allowed, denied or depth exceeded);
\* it calls ListRelationSubjects at most once for each (objectType, objectID,
\* relation); and it skips a node only for an expanded node of the same key,
\* never for the same object expanded under another relation, so that an
\* object reached under two relations is expanded once per relation.
C10_WalkTerminates ==
    /\ [](walk # NoCall =>
            \A i, j \in 1..Len(walk.w.expanded) : i # j => walk.w.expanded[i] # walk.w.expanded[j])
    /\ [][SkipsHead =>
            \E i \in 1..Len(walk.w.expanded) :
                LET e == walk.w.expanded[i]
                    node == Head(walk.w.queue)
                IN  /\ FmtNode(e[1], e[2], e[3]) = FmtNode(node.objectType, node.objectID, node.relation)
                    /\ ~(e[1] = node.objectType /\ e[2] = node.objectID /\ e[3] # node.relation)]_vars
    /\ <>(walk # NoCall /\ walk.w.status # "running")

\* a walk over the cycle d:x:1#r -> f:1#r -> d:x:1#r that has returned: it
\* met d:x:1#r a second time and expanded each of the two nodes once
C10_Witness ==
    /\ walk # NoCall
    /\ walk.w.status # "running"
    /\ {"W2", "W6"} \subseteq DOMAIN relations
    /\ Len(walk.w.expanded) = 2
    /\ walk.w.visited = {FmtNode(<<"d">>, <<"x", ":", "1">>, <<"r">>), FmtNode(<<"f">>, <<"1">>, <<"r">>)}
    /\ walk.w.status = "denied"

----------------------------------------------------------------------------
(* The engine over a store whose calls can fail                            *)
(*                                                                         *)
(* The engine reads its store through the store.Store interface.  The      *)
(* memory store never returns an error from the calls below; the SQL and   *)
(* Mongo stores pass ctx to the driver and return its error, so a call     *)
(* made after the request context was cancelled fails.  `failing` maps    *)
(* each method to the error its calls return during one Check ("nil" for  *)
(* a method that succeeds), and the evaluators are followed call by call.  *)

StoreMethods ==
    {"ListRolesForSubject", "ListRolesForSubjectOnResource", "GetRole", "ListRolePermissions",
     "GetPermission", "CheckDirectRelation", "ListRelationSubjects", "ListActivePolicies"}

\* context.Canceled, and an error of the driver
ErrCanceled == "context canceled"
ErrDriver == "driver: bad connection"

\* ErrGraphDepthExceeded
ErrGraphDepthExceeded == "warden: relation graph depth exceeded"

\* no call fails
NoFailure == [m \in StoreMethods |-> "nil"]

\* the order in which Check reaches the methods: evaluateRBAC lists the
\* assignments, resolves the parents, then reads the permissions;
\* evaluateReBAC checks the direct tuple, then walks; evaluateABAC lists the
\* policies
MethodStage ==
    [m \in StoreMethods |->
        CASE m = "ListRolesForSubject" -> 1
          [] m = "ListRolesForSubjectOnResource" -> 2
          [] m = "GetRole" -> 3
          [] m \in {"ListRolePermissions", "GetPermission"} -> 4
          [] m = "CheckDirectRelation" -> 5
          [] m = "ListRelationSubjects" -> 6
          [] m = "ListActivePolicies" -> 7]

\* the context is cancelled when Check reaches stage k: every later call fails
CancelledFrom(k) == [m \in StoreMethods |-> IF MethodStage[m] >= k THEN ErrCanceled ELSE "nil"]

\* the calls of one method fail with a driver error
OneFails(m) == [NoFailure EXCEPT ![m] = ErrDriver]

\* what the loops of evaluateRBAC get from the store: walkRoleParents stops at
\* a role whose GetRole failed as at a role that is not stored, and the
\* permission loops `continue` past a failed ListRolePermissions or
\* GetPermission as past a missing one
SeenBy(st, failing) ==
    [st EXCEPT !.roles = IF failing["GetRole"] # "nil" THEN EmptyMap ELSE @,
               !.rolePermissions = IF failing["ListRolePermissions"] # "nil" THEN EmptyMap ELSE @,
               !.permissions = IF failing["GetPermission"] # "nil" THEN EmptyMap ELSE @]

\* Engine.evaluateRBAC over the store interface: (result, err) and the
\* methods that were called and failed.  err is the error chain, outermost
\* first, and <<>> is nil.
evaluateRBACOver(st, tenantID, req, ord, failing) ==
    IF failing["ListRolesForSubject"] # "nil"
    THEN [res |-> Nil, err |-> <<failing["ListRolesForSubject"]>>, failed |-> {"ListRolesForSubject"}]
    ELSE IF failing["ListRolesForSubjectOnResource"] # "nil"
    THEN [res |-> Nil, err |-> <<failing["ListRolesForSubjectOnResource"]>>,
          failed |-> {"ListRolesForSubjectOnResource"}]
    ELSE
    LET globalRoles == ListRolesForSubject(st, tenantID, req.subject.kind, req.subject.id, ord.assignments)
        resourceRoles == ListRolesForSubjectOnResource(st, tenantID, req.subject.kind, req.subject.id,
                                                       req.resource.type, req.resource.id, ord.assignments)
        allRoles == globalRoles \o resourceRoles
        seen == SeenBy(st, failing)
        inherited == resolveInheritedRoles(seen.roles, allRoles)
    IN  IF Len(allRoles) = 0
        THEN [res |-> CheckResult(FALSE, DecisionDenyNoRoles, <<"subject has no roles">>, <<>>),
              err |-> <<>>, failed |-> {}]
        ELSE [res |-> GrantLoop(seen, inherited, 1,
                                req.resource.type \o <<":">> \o req.action.name, ord.permissions),
              err |-> <<>>,
              failed |-> {m \in {"GetRole", "ListRolePermissions"} : failing[m] # "nil"}
                         \cup {m \in {"GetPermission"} :
                                 /\ failing[m] # "nil"
                                 /\ \E i \in 1..Len(inherited) :
                                       ListRolePermissions(seen, inherited[i], ord.permissions) # <<>>}]

\* an evaluateReBAC that returns every error of the walker
evaluateReBACOverHard(st, tenantID, req, maxDepth, order, failing) ==
    IF failing["CheckDirectRelation"] # "nil"
    THEN [res |-> Nil, err |-> <<failing["CheckDirectRelation"]>>, failed |-> {"CheckDirectRelation"}]
    ELSE IF CheckDirectRelation(st, tenantID, req.resource.type, req.resource.id, req.action.name,
                                req.subject.kind, req.subject.id)
    THEN [res |-> CheckResult(TRUE, DecisionAllow, NoText,
                      <<MatchInfo("rebac", "", <<"direct relation">>)>>), err |-> <<>>, failed |-> {}]
    ELSE IF failing["ListRelationSubjects"] # "nil"
    THEN [res |-> Nil, err |-> <<"list subjects for: ", failing["ListRelationSubjects"]>>,
          failed |-> {"ListRelationSubjects"}]
    ELSE LET w == Walk(st, tenantID, req, maxDepth, order)
             walkErr == IF w.status = "depth_exceeded" THEN <<ErrGraphDepthExceeded>> ELSE <<>>
         IN  IF walkErr # <<>>
             THEN [res |-> Nil, err |-> walkErr, failed |-> {}]
             ELSE IF w.status = "allowed"
             THEN [res |-> CheckResult(TRUE, DecisionAllow, NoText,
                               <<MatchInfo("rebac", "", <<"transitive: ">> \o w.path)>>),
                   err |-> <<>>, failed |-> {}]
             ELSE [res |-> CheckResult(FALSE, DecisionDenyRelation, <<"no relation found">>, <<>>),
                   err |-> <<>>, failed |-> {}]

\* Engine.evaluateReBAC over the store interface.  Walk calls
\* ListRelationSubjects first for the request's own node, so a failing
\* ListRelationSubjects ends the walk there with "list subjects for <key>: <err>".
evaluateReBACOver(st, tenantID, req, maxDepth, order, failing) ==
    IF failing["CheckDirectRelation"] # "nil"
    THEN [res |-> Nil, err |-> <<failing["CheckDirectRelation"]>>, failed |-> {"CheckDirectRelation"}]
    ELSE IF CheckDirectRelation(st, tenantID, req.resource.type, req.resource.id, req.action.name,
                                req.subject.kind, req.subject.id)
    THEN [res |-> CheckResult(TRUE, DecisionAllow, NoText,
                      <<MatchInfo("rebac", "", <<"direct relation">>)>>), err |-> <<>>, failed |-> {}]
    ELSE IF failing["ListRelationSubjects"] # "nil"
    THEN [res |-> Nil, err |-> <<"list subjects for: ", failing["ListRelationSubjects"]>>,
          failed |-> {"ListRelationSubjects"}]
    ELSE LET w == Walk(st, tenantID, req, maxDepth, order)
             walkErr == IF w.status = "depth_exceeded" THEN <<ErrGraphDepthExceeded>> ELSE <<>>
         IN  IF walkErr # <<>> /\ ErrGraphDepthExceeded \notin Range(walkErr)
             THEN [res |-> Nil, err |-> walkErr, failed |-> {}]
             ELSE IF w.status = "allowed"
             THEN [res |-> CheckResult(TRUE, DecisionAllow, NoText,
                               <<MatchInfo("rebac", "", <<"transitive: ">> \o w.path)>>),
                   err |-> <<>>, failed |-> {}]
             ELSE [res |-> CheckResult(FALSE, DecisionDenyRelation, <<"no relation found">>, <<>>),
                   err |-> <<>>, failed |-> {}]

\* Engine.evaluateABAC over the store interface
evaluateABACOver(st, tenantID, req, order, failing) ==
    IF failing["ListActivePolicies"] # "nil"
    THEN [res |-> Nil, err |-> <<failing["ListActivePolicies"]>>, failed |-> {"ListActivePolicies"}]
    ELSE LET r == Evaluate(ListActivePolicies(st, tenantID, order), req)
         IN  [res |-> r.res, err |-> IF r.err = "nil" THEN <<>> ELSE <<r.err>>, failed |-> {}]

\* an evaluator that is disabled in the Config
NotRun == [res |-> Nil, err |-> <<>>, failed |-> {}]

\* The evaluators of Engine.Check over the store interface, from the first
\* enabled one to the first that fails: the sub-results, the merged result,
\* the error chain, the evaluators that ran (in order) and the store methods
\* that were called and failed.
Evaluators(st, tenantID, req, cfg, ord, failing) ==
    LET rbac == IF cfg.rbac THEN evaluateRBACOver(st, tenantID, req, ord, failing) ELSE NotRun
        rebac == IF cfg.rebac
                 THEN evaluateReBACOver(st, tenantID, req, DefaultGraphWalker(cfg.maxGraphDepth),
                                        ord.relations, failing)
                 ELSE NotRun
        abac == IF cfg.abac THEN evaluateABACOver(st, tenantID, req, ord.policies, failing) ELSE NotRun
        ranRBAC == IF cfg.rbac THEN <<"rbac">> ELSE <<>>
        ranReBAC == IF cfg.rebac THEN <<"rebac">> ELSE <<>>
        ranABAC == IF cfg.abac THEN <<"abac">> ELSE <<>>
    IN  IF rbac.err # <<>>
        THEN [res |-> Nil, err |-> <<"warden rbac: ">> \o rbac.err, ran |-> ranRBAC,
              rbac |-> Nil, rebac |-> Nil, abac |-> Nil, failed |-> rbac.failed]
        ELSE IF rebac.err # <<>>
        THEN [res |-> Nil, err |-> <<"warden rebac: ">> \o rebac.err, ran |-> ranRBAC \o ranReBAC,
              rbac |-> rbac.res, rebac |-> Nil, abac |-> Nil, failed |-> rbac.failed \cup rebac.failed]
        ELSE IF abac.err # <<>>
        THEN [res |-> Nil, err |-> <<"warden abac: ">> \o abac.err, ran |-> ranRBAC \o ranReBAC \o ranABAC,
              rbac |-> rbac.res, rebac |-> rebac.res, abac |-> Nil,
              failed |-> rbac.failed \cup rebac.failed \cup abac.failed]
        ELSE [res |-> mergeDecisions(rbac.res, rebac.res, abac.res), err |-> <<>>,
              ran |-> ranRBAC \o ranReBAC \o ranABAC,
              rbac |-> rbac.res, rebac |-> rebac.res, abac |-> abac.res,
              failed |-> rbac.failed \cup rebac.failed \cup abac.failed]

\* ErrAccessDenied
ErrAccessDenied == "warden: access denied"

\* a Go error value: nil, or the chain of wrapped errors (outermost first);
\* the error of a denied Enforce also formats the decision and the reason
NilError == [nil |-> TRUE, chain |-> <<>>, decision |-> "", reason |-> NoText]
Error(chain, decision, reason) == [nil |-> FALSE, chain |-> chain, decision |-> decision, reason |-> reason]

\* errors.Is(err, target)
ErrorsIs(err, target) == ~err.nil /\ target \in Range(err.chain)

\* an Enforce that looks only at the error of Check
EnforceErrorOnly(out) ==
    IF out.err # <<>> THEN Error(<<"warden check: ">> \o out.err, "", NoText)
    ELSE NilError

\* Engine.Enforce, from the return of its Check
Enforce(out) ==
    IF out.err # <<>> THEN Error(<<"warden check: ">> \o out.err, "", NoText)
    ELSE IF ~out.res.allowed THEN Error(<<ErrAccessDenied>>, out.res.decision, out.res.reason)
    ELSE NilError

\* Engine.CanI, from the return of its Check: (bool, error)
CanI(out) ==
    IF out.err # <<>> THEN [allowed |-> FALSE, err |-> out.err]
    ELSE [allowed |-> out.res.allowed, err |-> <<>>]

\* the request CanI builds: no attributes and no context
CanIRequest(subjectKind, subjectID, action, resourceType, resourceID) ==
    Request(subjectKind, subjectID, action, resourceType, resourceID, NoContext)

----------------------------------------------------------------------------
(* Check, Enforce and CanI on an engine without cache and plugins, over a  *)
(* store whose calls can fail                                              *)

\* the ways the store calls of one Check fail: not at all, from the moment
\* the context is cancelled, or one method with a driver error
FailureModes ==
    {NoFailure} \cup {CancelledFrom(k) : k \in 1..7} \cup {OneFails(m) : m \in StoreMethods}

\* relation tuples: T1 relates a to d:1 directly, T2 and T3 through g:1#m,
\* and T2 and T6 make the chain d:1#r -> g:1#m -> h:1#m
DeepTuples ==
    Restrict(TuplePool, {"T1", "T2", "T3"}) @@
    ("T6" :> Tuple(<<"t">>, <<"g">>, <<"1">>, <<"m">>, <<"h">>, <<"1">>, <<"m">>))

\* policies: allow-all, deny-ip, and an allow policy whose condition has an
\* operator that evaluateCondition does not know
FailPolicies ==
    Restrict(PolicyPool, {"X1", "X2"}) @@
    ("X7" :> Policy("X7", <<"t">>, "allow-like", EffectAllow, TRUE, <<>>, <<>>, <<>>,
                    <<Condition(<<"resource", ".", "id">>, "like", StrVal(<<"1">>))>>))

\* R1 grants d:r itself, or inherits it from its parent R2
FailSetups ==
    {RBACSetup(("R1" :> Role(<<"t">>, NilPtr)), ("P1" :> PermRead), ("R1" :> {"P1"})),
     RBACSetup(("R1" :> Role(<<"t">>, Ptr("R2"))) @@ ("R2" :> Role(<<"t">>, NilPtr)),
               ("P1" :> PermRead), ("R2" :> {"P1"}))}

FailStores ==
    {Store(s.roles, s.permissions, s.rolePermissions, a, Restrict(DeepTuples, T), Restrict(FailPolicies, X)) :
        s \in FailSetups,
        a \in {EmptyMap, Restrict(AssignmentPool, {"A1"})},
        T \in {{}, {"T1"}, {"T2", "T3"}, {"T2", "T6"}},
        X \in {{}, {"X1"}, {"X2"}, {"X7"}}}

\* engines whose walker has depth 1, with all models, with RBAC alone and
\* without RBAC; and the default configuration
FailConfigs ==
    {Config(TRUE, TRUE, TRUE, 1), Config(TRUE, FALSE, FALSE, 1), Config(FALSE, TRUE, TRUE, 1),
     Config(TRUE, TRUE, TRUE, DefaultMaxGraphDepth)}

FailRequests ==
    {Request(User, <<"a">>, <<"r">>, <<"d">>, <<"1">>, NoContext),
     Request(User, <<"a">>, <<"r">>, <<"d">>, <<"1">>, IpContext)}

InitFail ==
    /\ \E st \in FailStores : StoreIs(st)
    /\ now = 1
    /\ checked = NoCall
    /\ CallsIdle

\* the record of a Check on an engine configured with cfg
Checked(tenantID, req, cfg, ord, failing) ==
    [done |-> TRUE, tenant |-> tenantID, req |-> req, cfg |-> cfg, ord |-> ord, failing |-> failing,
     out |-> Evaluators(St, tenantID, req, cfg, ord, failing)]

\* Engine.Check(ctx, req)
CheckOverCall(tenantID, req, cfg, ord, failing) ==
    /\ checked = NoCall
    /\ checked' = Checked(tenantID, req, cfg, ord, failing)
    /\ UNCHANGED <<storeVars, now, mergeIn, mergeOut, evalIn, evalOut, inherit, walk, extVars>>

\* Engine.Enforce(ctx, req)
EnforceCall(tenantID, req, cfg, ord, failing) ==
    /\ checked = NoCall
    /\ checked' = Checked(tenantID, req, cfg, ord, failing)
    /\ call' = [done |-> TRUE, op |-> "Enforce", ret |-> Enforce(checked'.out)]
    /\ UNCHANGED <<storeVars, now, mergeIn, mergeOut, evalIn, evalOut, inherit, walk,
                   cache, plugins, trace, heap, config>>

\* Engine.CanI(ctx, subjectKind, subjectID, action, resourceType, resourceID)
CanICall(tenantID, req, cfg, ord, failing) ==
    /\ checked = NoCall
    /\ checked' = Checked(tenantID,
                          CanIRequest(req.subject.kind, req.subject.id, req.action.name,
                                      req.resource.type, req.resource.id),
                          cfg, ord, failing)
    /\ call' = [done |-> TRUE, op |-> "CanI", ret |-> CanI(checked'.out)]
    /\ UNCHANGED <<storeVars, now, mergeIn, mergeOut, evalIn, evalOut, inherit, walk,
                   cache, plugins, trace, heap, config>>

\* the caller takes what the call returned
CallReturn ==
    /\ checked # NoCall
    /\ checked' = NoCall
    /\ call' = NoCall
    /\ UNCHANGED <<storeVars, now, mergeIn, mergeOut, evalIn, evalOut, inherit, walk,
                   cache, plugins, trace, heap, config>>

NextFail ==
    \/ \E tenantID \in TenantIDs, req \in FailRequests, cfg \in FailConfigs, ord \in Orders(St),
          failing \in FailureModes :
          \/ CheckOverCall(tenantID, req, cfg, ord, failing)
          \/ EnforceCall(tenantID, req, cfg, ord, failing)
          \/ CanICall(tenantID, req, cfg, ord, failing)
    \/ CallReturn

SpecFail == InitFail /\ [][NextFail]_vars

\* the store without its relation tuples
WithoutRelations(st) == [st EXCEPT !.relations = EmptyMap]

\* the walk of the checked request found no tuple of the subject and took a
\* node deeper than maxDepth from its queue
DepthExceeded(c) ==
    /\ ~CheckDirectRelation(St, c.tenant, c.req.resource.type, c.req.resource.id, c.req.action.name,
                            c.req.subject.kind, c.req.subject.id)
    /\ Walk(St, c.tenant, c.req, DefaultGraphWalker(c.cfg.maxGraphDepth), c.ord.relations).status
          = "depth_exceeded"

\* the call reached evaluateReBAC and one of its store calls failed
ReBACStoreFailed(c) ==
    /\ "rebac" \in Range(c.out.ran)
    /\ \/ c.failing["CheckDirectRelation"] # "nil"
       \/ /\ c.failing["ListRelationSubjects"] # "nil"
          /\ ~CheckDirectRelation(St, c.tenant, c.req.resource.type, c.req.resource.id,
                                  c.req.action.name, c.req.subject.kind, c.req.subject.id)

\* C11: depth-exceeded is soft.  The walker reports depth-exceeded only when
\* a chain of more than maxDepth tuples starts at the request's node.  When
\* it does, and no store call of evaluateReBAC fails, Check does not fail in
\* ReBAC: ReBAC contributes deny_relation "no relation found", and Check
\* returns what it returns over the same store without relation tuples (the
\* merge of the RBAC and ABAC results with that deny), so an RBAC allow
\* without an explicit ABAC deny still grants access.  A failed
\* CheckDirectRelation or ListRelationSubjects makes Check fail with an error
\* that starts with "warden rebac:".
C11_DepthExceededIsSoft ==
    (checked # NoCall /\ "rebac" \in Range(checked.out.ran)) =>
        LET c == checked
            out == c.out
            without == Evaluators(WithoutRelations(St), c.tenant, c.req, c.cfg, c.ord, c.failing)
        IN  /\ (~ReBACStoreFailed(c) /\ DepthExceeded(c)) =>
                  /\ NodesAt(St, c.tenant, c.req, DefaultGraphWalker(c.cfg.maxGraphDepth) + 1) # {}
                  /\ ~HasPrefix(out.err, <<"warden rebac: ">>)
                  /\ out.err = without.err
                  /\ out.res = without.res
                  /\ out.err = <<>> =>
                        /\ out.rebac = CheckResult(FALSE, DecisionDenyRelation, <<"no relation found">>, <<>>)
                        /\ (IsAllowed(out.rbac) /\ ~(out.abac # Nil /\ out.abac.decision = DecisionDenyExplicit))
                              => out.res.allowed
                        /\ IsAllowed(out.abac) => out.res.allowed
            /\ ReBACStoreFailed(c) =>
                  /\ out.res = Nil
                  /\ HasPrefix(out.err, <<"warden rebac: ">>)

\* a Check whose walk exceeded the depth and that RBAC allowed
C11_Witness ==
    /\ checked # NoCall
    /\ "rebac" \in Range(checked.out.ran)
    /\ ~ReBACStoreFailed(checked)
    /\ DepthExceeded(checked)
    /\ checked.out.err = <<>>
    /\ checked.out.rebac.decision = DecisionDenyRelation
    /\ IsAllowed(checked.out.rbac)
    /\ checked.out.res.allowed

\* the failures of the call are those of a cancelled context
Cancelled(c) == \E k \in 1..7 : c.failing = CancelledFrom(k)

\* C12: cancellation is never turned into a decision.  If a store call made
\* during a Check failed because the context was cancelled, Check returns an
\* error and no result.
C12_CancellationPropagates ==
    (checked # NoCall /\ Cancelled(checked) /\ checked.out.failed # {}) =>
        /\ checked.out.err # <<>>
        /\ checked.out.res = Nil

\* C13: Enforce and CanI.  Enforce returns nil exactly if Check returned an
\* allowed result; for a denied result its error wraps ErrAccessDenied and
\* carries the decision and the reason; for a failed Check its error wraps
\* the error of Check and is not ErrAccessDenied.  CanI returns the allowed
\* flag of the Check of the request it builds, and the error of that Check.
C13_EnforceAndCanI ==
    (call # NoCall /\ checked # NoCall) =>
        LET out == checked.out
            ret == call.ret
        IN  /\ call.op = "Enforce" =>
                  /\ (ret = NilError) <=> (out.err = <<>> /\ out.res.allowed)
                  /\ (out.err = <<>> /\ ~out.res.allowed) =>
                        /\ ErrorsIs(ret, ErrAccessDenied)
                        /\ ret.decision = out.res.decision
                        /\ ret.reason = out.res.reason
                  /\ out.err # <<>> =>
                        /\ ~ret.nil
                        /\ HasSuffix(ret.chain, out.err)
                        /\ ~ErrorsIs(ret, ErrAccessDenied)
            /\ call.op = "CanI" =>
                  /\ checked.req = CanIRequest(checked.req.subject.kind, checked.req.subject.id,
                                               checked.req.action.name, checked.req.resource.type,
                                               checked.req.resource.id)
                  /\ out.err = <<>> => (ret.allowed = out.res.allowed /\ ret.err = <<>>)
                  /\ out.err # <<>> => (~ret.allowed /\ ret.err = out.err)

\* an Enforce of a request that Check denied with a reason
C13_Witness ==
    /\ call # NoCall
    /\ call.op = "Enforce"
    /\ checked.out.err = <<>>
    /\ ~checked.out.res.allowed
    /\ checked.out.res.reason # NoText
    /\ ErrorsIs(call.ret, ErrAccessDenied)

----------------------------------------------------------------------------
(* cache.Memory                                                            *)
(*                                                                         *)
(* A cache is the record of Memory's fields: entries maps a key (the text  *)
(* cacheKey formats) to an entry (result, expiresAt); ttl and maxSize are  *)
(* set by NewMemory's options.  Time is the integer clock `now`.           *)

\* the engine has no cache (Engine.cache == nil)
NoCache == [isNil |-> TRUE]

\* NewMemory(WithTTL(ttl), WithMaxSize(maxSize))
NewMemory(ttl, maxSize) == [isNil |-> FALSE, entries |-> EmptyMap, ttl |-> ttl, maxSize |-> maxSize]

\* a cache entry
Entry(result, expiresAt) == [result |-> result, expiresAt |-> expiresAt]

\* cacheKey: fmt.Sprintf("%s:%s:%s:%s:%s:%s", tenantID, kind, id, action, type, id)
cacheKey(tenantID, req) ==
    tenantID \o <<":">> \o req.subject.kind \o <<":">> \o req.subject.id \o <<":">> \o
    req.action.name \o <<":">> \o req.resource.type \o <<":">> \o req.resource.id

\* the map m without the keys in gone
Without(m, gone) == [k \in DOMAIN m \ gone |-> m[k]]

\* a Get that does not look at expiresAt
GetIgnoringExpiry(c, t, tenantID, req) ==
    LET key == cacheKey(tenantID, req)
    IN  IF key \notin DOMAIN c.entries THEN [cache |-> c, result |-> Nil, ok |-> FALSE, found |-> FALSE]
        ELSE [cache |-> c, result |-> c.entries[key].result, ok |-> TRUE, found |-> TRUE]

\* Memory.Get at time t: the cache afterwards, (result, ok), and whether the
\* map had the key
Get(c, t, tenantID, req) ==
    LET key == cacheKey(tenantID, req)
    IN  IF key \notin DOMAIN c.entries THEN [cache |-> c, result |-> Nil, ok |-> FALSE, found |-> FALSE]
        ELSE IF t > c.entries[key].expiresAt
        THEN [cache |-> [c EXCEPT !.entries = Without(@, {key})], result |-> Nil, ok |-> FALSE,
              found |-> TRUE]
        ELSE [cache |-> c, result |-> c.entries[key].result, ok |-> TRUE, found |-> TRUE]

\* Memory.evictExpired at time t
evictExpired(entries, t) == Without(entries, {k \in DOMAIN entries : t > entries[k].expiresAt})

\* Memory.evictOne: the first key the range over the map yields is deleted;
\* first is that key (any key of the map)
evictOne(entries, first) == Without(entries, {first})

\* the keys the range of evictOne can yield first when Set holds `entries`
\* at time t: any key left after evictExpired if the map is still at
\* capacity, and no key (None) otherwise
Victims(c, t) ==
    IF Cardinality(DOMAIN c.entries) >= c.maxSize
          /\ Cardinality(DOMAIN evictExpired(c.entries, t)) >= c.maxSize
          /\ DOMAIN evictExpired(c.entries, t) # {}
    THEN DOMAIN evictExpired(c.entries, t)
    ELSE {<<None>>}

\* a Set that evicts nothing
SetWithoutEviction(c, t, tenantID, req, result, first) ==
    [c EXCEPT !.entries = (cacheKey(tenantID, req) :> Entry(result, t + c.ttl)) @@ @]

\* Memory.Set at time t
Set(c, t, tenantID, req, result, first) ==
    LET key == cacheKey(tenantID, req)
        live == IF Cardinality(DOMAIN c.entries) >= c.maxSize
                THEN evictExpired(c.entries, t)
                ELSE c.entries
        kept == IF Cardinality(DOMAIN c.entries) >= c.maxSize /\ Cardinality(DOMAIN live) >= c.maxSize
                   /\ first \in DOMAIN live
                THEN evictOne(live, first)
                ELSE live
    IN  [c EXCEPT !.entries = (key :> Entry(result, t + c.ttl)) @@ kept]

\* Memory.InvalidateTenant
InvalidateTenant(c, tenantID) ==
    LET prefix == tenantID \o <<":">>
    IN  [c EXCEPT !.entries =
            Without(@, {k \in DOMAIN @ : Len(k) > Len(prefix) /\ SubSeq(k, 1, Len(prefix)) = prefix})]

\* Memory.InvalidateSubject
InvalidateSubject(c, tenantID, subjectKind, subjectID) ==
    LET subKey == tenantID \o <<":">> \o subjectKind \o <<":">> \o subjectID \o <<":">>
    IN  [c EXCEPT !.entries =
            Without(@, {k \in DOMAIN @ : Len(k) >= Len(subKey) /\ SubSeq(k, 1, Len(subKey)) = subKey})]

----------------------------------------------------------------------------
(* The memory cache under Set, Get, the invalidations and the clock        *)

MaxCacheSize == 2   \* maxSize of the cache is 1..MaxCacheSize
MaxCacheTime == 3   \* the clock runs from 1 to MaxCacheTime
CacheTTL == 1       \* the ttl of the cache

\* the (tenant, request) pairs of the cache calls: users a and b of tenant
\* "t", user a of tenant "t:u", and the user with id "a:r" of tenant "t"
CacheCalls ==
    {[tenant |-> <<"t">>, req |-> Request(User, <<"a">>, <<"r">>, <<"d">>, <<"1">>, NoContext)],
     [tenant |-> <<"t">>, req |-> Request(User, <<"b">>, <<"r">>, <<"d">>, <<"1">>, NoContext)],
     [tenant |-> <<"t", ":", "u">>, req |-> Request(User, <<"a">>, <<"r">>, <<"d">>, <<"1">>, NoContext)],
     [tenant |-> <<"t">>, req |-> Request(User, <<"a", ":", "r">>, <<"r">>, <<"d">>, <<"1">>, NoContext)]}

\* the results that are cached
CacheResults ==
    {CheckResult(TRUE, DecisionAllow, NoText, <<MatchInfo("rbac", "R1", <<"role grants d:r">>)>>),
     CheckResult(FALSE, DecisionDenyNoRoles, <<"subject has no roles">>, <<>>)}

\* who stored an entry: the arguments and the time of the last Set of its key
Stored(k, result, t) == [tenant |-> k.tenant, req |-> k.req, result |-> result, at |-> t]

InitCache ==
    /\ StoreIs(Store(EmptyMap, EmptyMap, EmptyMap, EmptyMap, EmptyMap, EmptyMap))
    /\ now = 1
    /\ checked = NoCall
    /\ mergeIn = NoCall
    /\ mergeOut = NoCall
    /\ evalIn = NoCall
    /\ evalOut = NoCall
    /\ inherit = NoCall
    /\ walk = NoCall
    /\ \E maxSize \in 1..MaxCacheSize : cache = NewMemory(CacheTTL, maxSize)
    /\ plugins = NoCall
    /\ trace = EmptyMap
    /\ call = NoCall
    /\ heap = NoCall
    /\ config = NoCall

\* the record of a cache call: the key, what Get returned, and the entries
\* the call removed
CacheCalled(op, key, found, ok, result, removed) ==
    [done |-> TRUE, op |-> op, key |-> key, found |-> found, ok |-> ok, result |-> result,
     removed |-> removed]

\* Memory.Set(ctx, k.tenant, k.req, result); trace remembers for each entry
\* the Set that stored it
CacheSet(k, result, first) ==
    /\ first \in Victims(cache, now)
    /\ cache' = Set(cache, now, k.tenant, k.req, result, first)
    /\ trace' = [key \in DOMAIN cache'.entries |->
                    IF key = cacheKey(k.tenant, k.req) THEN Stored(k, result, now) ELSE trace[key]]
    /\ call' = CacheCalled("Set", cacheKey(k.tenant, k.req), FALSE, FALSE, Nil,
                           Without(cache.entries, DOMAIN cache'.entries))
    /\ UNCHANGED <<storeVars, now, checked, mergeIn, mergeOut, evalIn, evalOut, inherit, walk,
                   plugins, heap, config>>

\* Memory.Get(ctx, k.tenant, k.req)
CacheGet(k) ==
    LET got == Get(cache, now, k.tenant, k.req)
    IN  /\ cache' = got.cache
        /\ trace' = Restrict(trace, DOMAIN cache'.entries)
        /\ call' = CacheCalled("Get", cacheKey(k.tenant, k.req), got.found, got.ok, got.result,
                               Without(cache.entries, DOMAIN cache'.entries))
        /\ UNCHANGED <<storeVars, now, checked, mergeIn, mergeOut, evalIn, evalOut, inherit, walk,
                       plugins, heap, config>>

\* Memory.InvalidateTenant(ctx, tenantID)
CacheInvalidateTenant(tenantID) ==
    /\ cache' = InvalidateTenant(cache, tenantID)
    /\ trace' = Restrict(trace, DOMAIN cache'.entries)
    /\ call' = NoCall
    /\ UNCHANGED <<storeVars, now, checked, mergeIn, mergeOut, evalIn, evalOut, inherit, walk,
                   plugins, heap, config>>

\* Memory.InvalidateSubject(ctx, tenantID, subjectKind, subjectID)
CacheInvalidateSubject(tenantID, subjectKind, subjectID) ==
    /\ cache' = InvalidateSubject(cache, tenantID, subjectKind, subjectID)
    /\ trace' = Restrict(trace, DOMAIN cache'.entries)
    /\ call' = NoCall
    /\ UNCHANGED <<storeVars, now, checked, mergeIn, mergeOut, evalIn, evalOut, inherit, walk,
                   plugins, heap, config>>

\* the clock advances
CacheTick ==
    /\ now < MaxCacheTime
    /\ now' = now + 1
    /\ call' = NoCall
    /\ UNCHANGED <<storeVars, checked, mergeIn, mergeOut, evalIn, evalOut, inherit, walk,
                   cache, plugins, trace, heap, config>>

NextCache ==
    \/ \E k \in CacheCalls, result \in CacheResults, first \in Victims(cache, now) :
          CacheSet(k, result, first)
    \/ \E k \in CacheCalls : CacheGet(k)
    \/ \E k \in CacheCalls : CacheInvalidateTenant(k.tenant)
    \/ \E k \in CacheCalls : CacheInvalidateSubject(k.tenant, k.req.subject.kind, k.req.subject.id)
    \/ CacheTick

SpecCache == InitCache /\ [][NextCache]_vars

\* C16: cache TTL.  Every entry holds the result of the last Set of its key
\* and expires ttl after that Set.  Get returns a hit exactly if an entry for
\* the key is present and the time is not after the time of its last Set plus
\* ttl; a hit returns the result of that Set and leaves the cache as it is; a
\* Get that finds an expired entry returns a miss and removes that entry and
\* no other.
C16_CacheTTL ==
    /\ [](\A key \in DOMAIN cache.entries :
            cache.entries[key] = Entry(trace[key].result, trace[key].at + cache.ttl))
    /\ [][(call' # NoCall /\ call'.op = "Get") =>
            LET key == call'.key
                present == key \in DOMAIN cache.entries
            IN  /\ call'.ok <=> (present /\ ~(now > trace[key].at + cache.ttl))
                /\ call'.ok => (call'.result = trace[key].result /\ cache' = cache)
                /\ (present /\ ~call'.ok) => cache'.entries = Without(cache.entries, {key})
                /\ ~present => cache' = cache]_vars

\* a Get found an entry after its expiry: it missed and removed the entry
C16_Witness ==
    /\ call # NoCall
    /\ call.op = "Get"
    /\ call.found
    /\ ~call.ok
    /\ DOMAIN call.removed = {call.key}
    /\ now > call.removed[call.key].expiresAt
    /\ call.key \notin DOMAIN cache.entries

\* C17: cache capacity.  The cache never holds more than maxSize entries.  A
\* Set leaves the entry it stores in the cache.  A Set that finds fewer than
\* maxSize entries removes nothing; one that finds the cache at capacity
\* removes the expired entries, and one entry that is not expired only if
\* maxSize entries are left after that.
C17_CacheCapacity ==
    /\ [](Cardinality(DOMAIN cache.entries) <= cache.maxSize)
    /\ [][(call' # NoCall /\ call'.op = "Set") =>
                LET key == call'.key
                    result == trace'[key].result
                    before == cache.entries
                    after == cache'.entries
                    expired == {x \in DOMAIN before : now > before[x].expiresAt}
                    atCapacity == Cardinality(DOMAIN before) >= cache.maxSize
                    gone == (DOMAIN before \ {key}) \ DOMAIN after
                IN  /\ key \in DOMAIN after
                    /\ after[key] = Entry(result, now + cache.ttl)
                    /\ \A x \in DOMAIN after \ {key} : x \in DOMAIN before /\ after[x] = before[x]
                    /\ ~atCapacity => gone = {}
                    /\ atCapacity =>
                          /\ expired \ {key} \subseteq gone
                          /\ Cardinality(gone \ expired) <= 1
                          /\ gone \ expired # {} => Cardinality(DOMAIN before \ expired) >= cache.maxSize
                          /\ Cardinality(DOMAIN before \ expired) >= cache.maxSize =>
                                (gone \ expired # {} \/ key \in DOMAIN before \ expired)]_vars

\* a Set at capacity that removed an entry that was not expired
C17_Witness ==
    /\ call # NoCall
    /\ call.op = "Set"
    /\ Cardinality(DOMAIN cache.entries) = cache.maxSize
    /\ call.key \in DOMAIN cache.entries
    /\ \E x \in DOMAIN call.removed : x # call.key /\ ~(now > call.removed[x].expiresAt)

\* C18: scoped invalidation.  InvalidateTenant(t) removes the entries stored
\* under tenant t and no entry stored under another tenant;
\* InvalidateSubject(t, kind, id) removes the entries stored under tenant t
\* for that subject and no other entry.
C18_ScopedInvalidation ==
    [][/\ \A k \in CacheCalls : CacheInvalidateTenant(k.tenant) =>
              \A key \in DOMAIN cache.entries :
                  (key \notin DOMAIN cache'.entries) <=> (trace[key].tenant = k.tenant)
       /\ \A k \in CacheCalls :
              CacheInvalidateSubject(k.tenant, k.req.subject.kind, k.req.subject.id) =>
                  \A key \in DOMAIN cache.entries :
                      (key \notin DOMAIN cache'.entries) <=>
                          /\ trace[key].tenant = k.tenant
                          /\ trace[key].req.subject.kind = k.req.subject.kind
                          /\ trace[key].req.subject.id = k.req.subject.id]_vars

----------------------------------------------------------------------------
(* plugin.Registry and the pipeline of Engine.Check                        *)

\* the hooks a plugin can implement, one per event kind
HookKinds ==
    {"BeforeCheck", "AfterCheck", "RoleCreated", "RoleUpdated", "RoleDeleted",
     "PermissionCreated", "PermissionDeleted", "PermissionAttached", "PermissionDetached",
     "RoleAssigned", "RoleUnassigned", "RelationWritten", "RelationDeleted",
     "PolicyCreated", "PolicyUpdated", "PolicyDeleted", "Shutdown"}

\* a plugin: its Name(), the hook interfaces it implements, and the hooks
\* of it that return an error
Plugin(name, implements, fails) == [name |-> name, implements |-> implements, fails |-> fails]

\* an entry of a per-hook list of the registry: {name, hook}
HookEntry(name, hook) == [name |-> name, hook |-> hook]

\* Engine.plugins == nil, and NewRegistry(logger)
NilRegistry == [isNil |-> TRUE]
NewRegistry == [isNil |-> FALSE, plugins |-> <<>>, hooks |-> [k \in HookKinds |-> <<>>]]

\* Registry.Register(p)
Register(r, p) ==
    [r EXCEPT !.plugins = Append(@, p),
              !.hooks = [k \in HookKinds |->
                            IF k \in p.implements THEN Append(@[k], HookEntry(p.name, p)) ELSE @[k]]]

\* WithPlugin(x)
WithPlugin(r, x) == Register(IF r.isNil THEN NewRegistry ELSE r, x)

\* one thing a call did: a hook of a plugin invoked, logHookError, an
\* evaluator run, a call of the cache
Event(op, kind, who) == [op |-> op, kind |-> kind, who |-> who]

\* the loop of an Emit method over the entries from the i-th on
RECURSIVE EmitLoop(_, _, _)
EmitLoop(entries, kind, i) ==
    IF i > Len(entries) THEN <<>>
    ELSE <<Event("hook", kind, entries[i].name)>> \o
         (IF kind \in entries[i].hook.fails THEN <<Event("logHookError", kind, entries[i].name)>>
          ELSE <<>>) \o
         EmitLoop(entries, kind, i + 1)

\* an Emit loop that returns at the first hook that fails
RECURSIVE EmitLoopStopOnError(_, _, _)
EmitLoopStopOnError(entries, kind, i) ==
    IF i > Len(entries) THEN <<>>
    ELSE IF kind \in entries[i].hook.fails
    THEN <<Event("hook", kind, entries[i].name), Event("logHookError", kind, entries[i].name)>>
    ELSE <<Event("hook", kind, entries[i].name)>> \o EmitLoopStopOnError(entries, kind, i + 1)

\* an emission that stops at the first hook that fails
EmitStopOnError(r, kind) == EmitLoopStopOnError(r.hooks[kind], kind, 1)

\* Registry.EmitBeforeCheck, EmitAfterCheck, EmitRoleCreated, ...: what the
\* emission of an event of this kind does; it returns nothing
Emit(r, kind) == EmitLoop(r.hooks[kind], kind, 1)

\* the events of the evaluators that ran
Ran(ran) == [i \in 1..Len(ran) |-> Event("evaluate", ran[i], "")]

\* the cache probe of Check: cache.Get, or a miss on an engine without cache
Probe(c, t, tenantID, req) ==
    IF c.isNil THEN [cache |-> c, result |-> Nil, ok |-> FALSE, found |-> FALSE]
    ELSE Get(c, t, tenantID, req)

\* the events of the probe
Probed(c) == IF c.isNil THEN <<>> ELSE <<Event("cache.Get", "", "")>>

\* the steps of Check around the cache probe `probe` and the evaluation
\* `out`, with before-check emitted before the probe
PipelineHooksFirst(c, r, t, tenantID, req, first, probe, out) ==
    IF probe.ok
    THEN [res |-> probe.result, err |-> <<>>,
          events |-> (IF r.isNil THEN <<>> ELSE Emit(r, "BeforeCheck")) \o Probed(c),
          cache |-> probe.cache]
    ELSE IF out.err # <<>>
    THEN [res |-> Nil, err |-> out.err,
          events |-> (IF r.isNil THEN <<>> ELSE Emit(r, "BeforeCheck")) \o Probed(c) \o Ran(out.ran),
          cache |-> probe.cache]
    ELSE [res |-> out.res, err |-> <<>>,
          events |-> (IF r.isNil THEN <<>> ELSE Emit(r, "BeforeCheck")) \o Probed(c) \o Ran(out.ran) \o
                     (IF c.isNil THEN <<>> ELSE <<Event("cache.Set", "", "")>>) \o
                     (IF r.isNil THEN <<>> ELSE Emit(r, "AfterCheck")),
          cache |-> IF c.isNil THEN c ELSE Set(probe.cache, t, tenantID, req, out.res, first)]

\* the steps of Check around the cache probe `probe` and the evaluation
\* `out` (which runs only on a miss): the result, the error, what the call
\* did in order, and the cache afterwards
Pipeline(c, r, t, tenantID, req, first, probe, out) ==
    IF probe.ok
    THEN [res |-> probe.result, err |-> <<>>, events |-> Probed(c), cache |-> probe.cache]
    ELSE IF out.err # <<>>
    THEN [res |-> Nil, err |-> out.err,
          events |-> Probed(c) \o (IF r.isNil THEN <<>> ELSE Emit(r, "BeforeCheck")) \o Ran(out.ran),
          cache |-> probe.cache]
    ELSE [res |-> out.res, err |-> <<>>,
          events |-> Probed(c) \o (IF r.isNil THEN <<>> ELSE Emit(r, "BeforeCheck")) \o Ran(out.ran) \o
                     (IF c.isNil THEN <<>> ELSE <<Event("cache.Set", "", "")>>) \o
                     (IF r.isNil THEN <<>> ELSE Emit(r, "AfterCheck")),
          cache |-> IF c.isNil THEN c ELSE Set(probe.cache, t, tenantID, req, out.res, first)]

\* a Check that emits before-check before it probes the cache
EngineCheckHooksFirst(st, c, r, t, tenantID, req, cfg, ord, failing, first) ==
    PipelineHooksFirst(c, r, t, tenantID, req, first, Probe(c, t, tenantID, req),
                       Evaluators(st, tenantID, req, cfg, ord, failing))

\* Engine.Check(ctx, req) at time t on an engine with store st, cache c,
\* registry r and config cfg
EngineCheck(st, c, r, t, tenantID, req, cfg, ord, failing, first) ==
    Pipeline(c, r, t, tenantID, req, first, Probe(c, t, tenantID, req),
             Evaluators(st, tenantID, req, cfg, ord, failing))

----------------------------------------------------------------------------
(* An engine with a cache and plugins                                      *)

MaxPlugins == 2   \* at most this many plugins are registered

\* plugins: one that implements every hook and fails in each, and one that
\* implements three hooks and never fails
PluginPool ==
    {Plugin("audit", HookKinds, HookKinds),
     Plugin("metrics", {"BeforeCheck", "AfterCheck", "RoleCreated"}, {})}

\* R1 grants d:r to user a, a reaches d:1 by a tuple, and the policies
\* allow everything and deny requests from ip x
PipelineStore ==
    Store(("R1" :> Role(<<"t">>, NilPtr)), ("P1" :> PermRead), ("R1" :> {"P1"}),
          Restrict(AssignmentPool, {"A1"}), Restrict(TuplePool, {"T1"}),
          Restrict(PolicyPool, {"X1", "X2"}))

\* all models enabled, and ReBAC disabled
PipelineConfigs ==
    {Config(TRUE, TRUE, TRUE, DefaultMaxGraphDepth), Config(TRUE, FALSE, TRUE, DefaultMaxGraphDepth)}

PipelineRequests ==
    {Request(User, <<"a">>, <<"r">>, <<"d">>, <<"1">>, NoContext),
     Request(User, <<"a">>, <<"r">>, <<"d">>, <<"1">>, IpContext),
     Request(User, <<"b">>, <<"r">>, <<"d">>, <<"1">>, NoContext)}

\* no store call fails, the first call of evaluateRBAC fails, the walk of
\* evaluateReBAC fails, the call of evaluateABAC fails
PipelineFailures ==
    {NoFailure, OneFails("ListRolesForSubject"), OneFails("CheckDirectRelation"),
     OneFails("ListActivePolicies")}

InitPipeline ==
    /\ StoreIs(PipelineStore)
    /\ now = 1
    /\ checked = NoCall
    /\ mergeIn = NoCall
    /\ mergeOut = NoCall
    /\ evalIn = NoCall
    /\ evalOut = NoCall
    /\ inherit = NoCall
    /\ walk = NoCall
    /\ cache \in {NoCache, NewMemory(CacheTTL, MaxCacheSize)}
    /\ plugins = NilRegistry
    /\ trace = NoCall
    /\ call = NoCall
    /\ heap = NoCall
    /\ config \in PipelineConfigs

\* the keys evictOne can take when the Check of (tenantID, req) reaches Set
CheckVictims(tenantID, req) ==
    IF cache.isNil THEN {<<None>>} ELSE Victims(Probe(cache, now, tenantID, req).cache, now)

\* NewEngine(..., WithPlugin(x)), or Engine.Plugins().Register(x)
WithPluginCall(x) ==
    /\ call = NoCall
    /\ IF plugins.isNil THEN TRUE ELSE Len(plugins.plugins) < MaxPlugins
    /\ plugins' = WithPlugin(plugins, x)
    /\ UNCHANGED <<storeVars, now, checked, mergeIn, mergeOut, evalIn, evalOut, inherit, walk,
                   cache, trace, call, heap, config>>

\* the caller of Check gets `out`, and the cache is as Check left it
CheckReturns(tenantID, req, ord, failing, first, out) ==
    /\ call = NoCall
    /\ cache' = out.cache
    /\ call' = [done |-> TRUE, op |-> "Check", tenant |-> tenantID, req |-> req, ord |-> ord,
                failing |-> failing, first |-> first, res |-> out.res, err |-> out.err,
                events |-> out.events]
    /\ UNCHANGED <<storeVars, now, checked, mergeIn, mergeOut, evalIn, evalOut, inherit, walk,
                   plugins, trace, heap, config>>

\* Engine.Check(ctx, req) in tenant tenantID
EngineCheckCall(tenantID, req, ord, failing, first) ==
    CheckReturns(tenantID, req, ord, failing, first,
                 EngineCheck(St, cache, plugins, now, tenantID, req, config, ord, failing, first))

\* a.eng.Plugins().EmitRoleCreated(...) and the other emissions of the API
\* handlers, Engine.Check's included
EmitCall(kind) ==
    /\ call = NoCall
    /\ ~plugins.isNil
    /\ call' = [done |-> TRUE, op |-> "Emit", kind |-> kind, events |-> Emit(plugins, kind)]
    /\ UNCHANGED <<storeVars, now, checked, mergeIn, mergeOut, evalIn, evalOut, inherit, walk,
                   cache, plugins, trace, heap, config>>

\* the caller takes what the call returned
PipelineReturn ==
    /\ call # NoCall
    /\ call' = NoCall
    /\ UNCHANGED <<storeVars, now, checked, mergeIn, mergeOut, evalIn, evalOut, inherit, walk,
                   cache, plugins, trace, heap, config>>

\* the clock advances
PipelineTick ==
    /\ call = NoCall
    /\ now < MaxCacheTime
    /\ now' = now + 1
    /\ UNCHANGED <<storeVars, checked, mergeIn, mergeOut, evalIn, evalOut, inherit, walk,
                   cache, plugins, trace, call, heap, config>>

NextPipeline ==
    \/ \E x \in PluginPool : WithPluginCall(x)
    \/ \E req \in PipelineRequests, ord \in Orders(St), failing \in PipelineFailures :
          \E first \in CheckVictims(<<"t">>, req) : EngineCheckCall(<<"t">>, req, ord, failing, first)
    \/ \E kind \in HookKinds : EmitCall(kind)
    \/ PipelineReturn
    \/ PipelineTick

SpecPipeline == InitPipeline /\ [][NextPipeline]_vars

\* the positions of the events of a call that are invocations of the hook
\* of this kind, that are evaluator runs, and that are calls of cache.Set
HooksAt(events, kind) == {i \in DOMAIN events : events[i].op = "hook" /\ events[i].kind = kind}
EvaluatorsAt(events) == {i \in DOMAIN events : events[i].op = "evaluate"}
SetsAt(events) == {i \in DOMAIN events : events[i].op = "cache.Set"}

\* the models a call evaluated, in order
ModelsRun(events) ==
    LET IsRun(e) == e.op = "evaluate"
        runs == SelectSeq(events, IsRun)
    IN  [i \in DOMAIN runs |-> runs[i].kind]

\* the models the Config enables, in the order RBAC, ReBAC, ABAC
EnabledModels(cfg) ==
    LET IsOn(m) == cfg[m]
    IN  SelectSeq(<<"rbac", "rebac", "abac">>, IsOn)

\* what the evaluator of a model returns for the checked request
ModelOut(m, c, cfg) ==
    CASE m = "rbac" -> evaluateRBACOver(St, c.tenant, c.req, c.ord, c.failing)
      [] m = "rebac" -> evaluateReBACOver(St, c.tenant, c.req, DefaultGraphWalker(cfg.maxGraphDepth),
                                          c.ord.relations, c.failing)
      [] m = "abac" -> evaluateABACOver(St, c.tenant, c.req, c.ord.policies, c.failing)

\* the result of a model, nil for a model that is disabled
ModelResult(m, c, cfg) == IF cfg[m] THEN ModelOut(m, c, cfg).res ELSE Nil

\* the position in `models` of the first model whose evaluator fails; 0 if none fails
FirstFailing(models, c, cfg) ==
    LET bad == {i \in DOMAIN models : ModelOut(models[i], c, cfg).err # <<>>}
    IN  IF bad = {} THEN 0 ELSE CHOOSE i \in bad : \A j \in bad : i <= j

\* "warden <model>: "
WrapOf(m) ==
    CASE m = "rbac" -> "warden rbac: "
      [] m = "rebac" -> "warden rebac: "
      [] m = "abac" -> "warden abac: "

\* the checked request has a live entry in the cache
CacheHit(c) ==
    /\ ~cache.isNil
    /\ cacheKey(c.tenant, c.req) \in DOMAIN cache.entries
    /\ ~(now > cache.entries[cacheKey(c.tenant, c.req)].expiresAt)

\* C14: the pipeline of Check.  On a cache hit Check returns the cached
\* result with a nil error, invokes no hook, runs no evaluator and writes
\* nothing to the cache.  On a miss every before-check hook is invoked
\* before any evaluator runs; the models that run are the enabled ones in
\* the order RBAC, ReBAC, ABAC up to the first that fails; if none fails the
\* merged result is returned and written to the cache, after the evaluators
\* and before every after-check hook; if one fails Check returns a nil
\* result and that error behind "warden <model>: ", the cache gets no entry
\* and no after-check hook is invoked.
C14_PipelineOrder ==
    [][(call' # NoCall /\ call'.op = "Check") =>
        LET c == call'
            ev == c.events
            key == cacheKey(c.tenant, c.req)
            models == EnabledModels(config)
            bad == FirstFailing(models, c, config)
        IN  IF CacheHit(c)
            THEN /\ c.res = cache.entries[key].result
                 /\ c.err = <<>>
                 /\ \A i \in DOMAIN ev : ev[i].op = "cache.Get"
                 /\ cache' = cache
            ELSE /\ \A i \in HooksAt(ev, "BeforeCheck"), j \in EvaluatorsAt(ev) : i < j
                 /\ Cardinality(HooksAt(ev, "BeforeCheck")) =
                        IF plugins.isNil THEN 0 ELSE Len(plugins.hooks["BeforeCheck"])
                 /\ IF bad = 0
                    THEN /\ ModelsRun(ev) = models
                         /\ c.err = <<>>
                         /\ c.res = mergeDecisions(ModelResult("rbac", c, config),
                                                   ModelResult("rebac", c, config),
                                                   ModelResult("abac", c, config))
                         /\ Cardinality(HooksAt(ev, "AfterCheck")) =
                                IF plugins.isNil THEN 0 ELSE Len(plugins.hooks["AfterCheck"])
                         /\ \A i \in EvaluatorsAt(ev), j \in HooksAt(ev, "AfterCheck") : i < j
                         /\ IF cache.isNil THEN SetsAt(ev) = {}
                            ELSE /\ Cardinality(SetsAt(ev)) = 1
                                 /\ \A i \in EvaluatorsAt(ev), j \in SetsAt(ev) : i < j
                                 /\ \A i \in SetsAt(ev), j \in HooksAt(ev, "AfterCheck") : i < j
                                 /\ key \in DOMAIN cache'.entries
                                 /\ cache'.entries[key] = Entry(c.res, now + cache.ttl)
                    ELSE /\ ModelsRun(ev) = SubSeq(models, 1, bad)
                         /\ c.res = Nil
                         /\ c.err = <<WrapOf(models[bad])>> \o ModelOut(models[bad], c, config).err
                         /\ SetsAt(ev) = {}
                         /\ HooksAt(ev, "AfterCheck") = {}
                         /\ cache.isNil => cache' = cache
                         /\ ~cache.isNil => cache'.entries = Without(cache.entries, {key})]_vars

\* a Check that missed the cache on an engine with ReBAC disabled: a
\* before-check hook, RBAC, ABAC, cache.Set and an after-check hook, in
\* this order
C14_Witness ==
    /\ call # NoCall
    /\ call.op = "Check"
    /\ ~config.rebac
    /\ ModelsRun(call.events) = <<"rbac", "abac">>
    /\ \E h \in HooksAt(call.events, "BeforeCheck"), s \in SetsAt(call.events),
          a \in HooksAt(call.events, "AfterCheck") :
          /\ \A i \in EvaluatorsAt(call.events) : h < i /\ i < s
          /\ s < a

\* the names of the plugins a call invoked the hook of this kind of, in order
Invoked(events, kind) ==
    LET IsHook(e) == e.op = "hook" /\ e.kind = kind
        hooks == SelectSeq(events, IsHook)
    IN  [i \in DOMAIN hooks |-> hooks[i].who]

\* the names of the registered plugins that implement the hook of this
\* kind, in registration order
Implementing(r, kind) ==
    LET Has(p) == kind \in p.implements
        ps == SelectSeq(r.plugins, Has)
    IN  [i \in DOMAIN ps |-> ps[i].name]

\* C15: hook dispatch.  The emission of an event of any kind invokes the
\* hook of the registered plugins that implement it, once per registration
\* and in registration order, and of no other plugin, whether or not a hook
\* fails; a failing hook is logged.  Check emits before-check on a miss and
\* after-check after a successful evaluation in this way, and its result,
\* its error and what it writes to the cache are those of the same Check on
\* an engine without plugins.
C15_HookDispatch ==
    [][/\ (call' # NoCall /\ call'.op = "Emit") =>
              /\ Invoked(call'.events, call'.kind) = Implementing(plugins, call'.kind)
              /\ \A i \in DOMAIN call'.events :
                     /\ call'.events[i].kind = call'.kind
                     /\ call'.events[i].op \in {"hook", "logHookError"}
                     /\ call'.events[i].op = "logHookError" =>
                            /\ i > 1
                            /\ call'.events[i - 1] = Event("hook", call'.kind, call'.events[i].who)
       /\ (call' # NoCall /\ call'.op = "Check") =>
              LET c == call'
                  bare == EngineCheck(St, cache, NilRegistry, now, c.tenant, c.req, config, c.ord,
                                      c.failing, c.first)
              IN  /\ c.res = bare.res
                  /\ c.err = bare.err
                  /\ cache' = bare.cache
                  /\ ~plugins.isNil =>
                         /\ Invoked(c.events, "BeforeCheck") =
                                IF CacheHit(c) THEN <<>> ELSE Implementing(plugins, "BeforeCheck")
                         /\ Invoked(c.events, "AfterCheck") =
                                IF CacheHit(c) \/ c.err # <<>> THEN <<>>
                                ELSE Implementing(plugins, "AfterCheck")]_vars

\* an emission in which a hook failed and a hook of a plugin registered
\* later was invoked after it
C15_Witness ==
    /\ call # NoCall
    /\ call.op = "Emit"
    /\ \E i, j \in DOMAIN call.events :
          /\ i < j
          /\ call.events[i].op = "logHookError"
          /\ call.events[j].op = "hook"
          /\ call.events[j].who # call.events[i].who

----------------------------------------------------------------------------
(* The role methods of the memory store and the structs its callers hold   *)

\* A role.Role struct as it lies in memory: the fields that are values, and
\* the two fields that refer to memory outside the struct.  ParentID is a
\* pointer (*id.RoleID) and Metadata a map; both are addresses of cells of
\* the heap, or NilAddr.
NilAddr == 0
RoleStruct(id, tenantID, slug, parentID, metadata) ==
    [id |-> id, tenant |-> tenantID, slug |-> slug, parentID |-> parentID, metadata |-> metadata]

\* copyRole: c := *r; return &c.  Every field is copied into a new struct,
\* the pointer and the map reference included; what they refer to is not.
copyRole(r) ==
    [id |-> r.id, tenant |-> r.tenant, slug |-> r.slug, parentID |-> r.parentID,
     metadata |-> r.metadata]

errNotFound == "not found"

\* Store.CreateRole(ctx, r): the roles map afterwards and the error
CreateRole(rs, r) == [roles |-> (r.id :> copyRole(r)) @@ rs, err |-> "nil"]

\* Store.GetRole(ctx, roleID)
GetRole(rs, roleID) ==
    IF roleID \notin DOMAIN rs THEN [role |-> Nil, err |-> errNotFound]
    ELSE [role |-> copyRole(rs[roleID]), err |-> "nil"]

\* Store.GetRoleBySlug(ctx, tenantID, slug): the range over the map returns
\* the first role it meets with this tenant and slug; `first` is the key the
\* range yields first among those
GetRoleBySlug(rs, tenantID, slug, first) ==
    IF first \in DOMAIN rs /\ rs[first].tenant = tenantID /\ rs[first].slug = slug
    THEN [role |-> copyRole(rs[first]), err |-> "nil"]
    ELSE [role |-> Nil, err |-> errNotFound]

\* the keys GetRoleBySlug can meet first
SlugMatches(rs, tenantID, slug) ==
    LET hit == {k \in DOMAIN rs : rs[k].tenant = tenantID /\ rs[k].slug = slug}
    IN  IF hit = {} THEN {None} ELSE hit

\* Store.UpdateRole(ctx, r)
UpdateRole(rs, r) ==
    IF r.id \notin DOMAIN rs THEN [roles |-> rs, err |-> errNotFound]
    ELSE [roles |-> [rs EXCEPT ![r.id] = copyRole(r)], err |-> "nil"]

\* Store.DeleteRole(ctx, roleID): the roles and the rolePermissions afterwards
DeleteRole(rs, rp, roleID) ==
    [roles |-> Without(rs, {roleID}), rolePermissions |-> Without(rp, {roleID}), err |-> "nil"]

\* what a caller reads from a role struct: the fields, the id behind
\* ParentID and the content of Metadata
Read(r, h) ==
    [id |-> r.id, tenant |-> r.tenant, slug |-> r.slug,
     parent |-> IF r.parentID = NilAddr THEN NilPtr ELSE Ptr(h[r.parentID]),
     metadata |-> IF r.metadata = NilAddr THEN Nil ELSE h[r.metadata]]

MaxCells == 2   \* the heap has at most this many cells

StoredRoleIDs == {"R1", "R2"}
RoleSlugs == {"editor", "viewer"}
MetadataValues == {("env" :> "prod"), ("env" :> "dev")}

\* the caller: the last method it called, the error it got, and the role
\* struct its variable points to (the one it last passed to CreateRole or
\* got from the store), if any
Caller(op, err, held) == [done |-> TRUE, op |-> op, err |-> err, held |-> held]

InitRoleStore ==
    /\ StoreIs(Store(EmptyMap, EmptyMap, EmptyMap, EmptyMap, EmptyMap, EmptyMap))
    /\ now = 1
    /\ checked = NoCall
    /\ mergeIn = NoCall
    /\ mergeOut = NoCall
    /\ evalIn = NoCall
    /\ evalOut = NoCall
    /\ inherit = NoCall
    /\ walk = NoCall
    /\ cache = NoCall
    /\ plugins = NoCall
    /\ trace = NoCall
    /\ call = Caller("new", "nil", {})
    /\ heap = <<>>
    /\ config = NoCall

\* the caller keeps r in place of the struct it held
Keep(held, r) == {r}

\* the caller builds a role struct, with a parent id and a metadata map or
\* without, and passes it to Store.CreateRole
CreateRoleCall(roleID, tenantID, slug, parent, metadata) ==
    LET cells == Len(heap)
        parentID == IF parent = None THEN NilAddr ELSE cells + 1
        withParent == IF parent = None THEN heap ELSE Append(heap, parent)
        metadataAt == IF metadata = Nil THEN NilAddr ELSE Len(withParent) + 1
        withBoth == IF metadata = Nil THEN withParent ELSE Append(withParent, metadata)
        r == RoleStruct(roleID, tenantID, slug, parentID, metadataAt)
        out == CreateRole(roles, r)
    IN  /\ Len(withBoth) <= MaxCells
        /\ heap' = withBoth
        /\ roles' = out.roles
        /\ call' = Caller("CreateRole", out.err, Keep(call.held, r))
        /\ UNCHANGED <<permissions, rolePermissions, assignments, relations, policies, now, checked,
                       mergeIn, mergeOut, evalIn, evalOut, inherit, walk, cache, plugins, trace,
                       config>>

\* Store.GetRole(ctx, roleID); the caller keeps the struct it gets
GetRoleCall(roleID) ==
    LET out == GetRole(roles, roleID)
    IN  /\ call' = Caller("GetRole", out.err,
                          IF out.err = "nil" THEN Keep(call.held, out.role) ELSE call.held)
        /\ UNCHANGED <<storeVars, now, checked, mergeIn, mergeOut, evalIn, evalOut, inherit, walk,
                       cache, plugins, trace, heap, config>>

\* Store.GetRoleBySlug(ctx, tenantID, slug)
GetRoleBySlugCall(tenantID, slug, first) ==
    LET out == GetRoleBySlug(roles, tenantID, slug, first)
    IN  /\ first \in SlugMatches(roles, tenantID, slug)
        /\ call' = Caller("GetRoleBySlug", out.err,
                          IF out.err = "nil" THEN Keep(call.held, out.role) ELSE call.held)
        /\ UNCHANGED <<storeVars, now, checked, mergeIn, mergeOut, evalIn, evalOut, inherit, walk,
                       cache, plugins, trace, heap, config>>

\* Store.UpdateRole(ctx, r) with a struct the caller holds
UpdateRoleCall(r) ==
    LET out == UpdateRole(roles, r)
    IN  /\ r \in call.held
        /\ roles' = out.roles
        /\ call' = Caller("UpdateRole", out.err, call.held)
        /\ UNCHANGED <<permissions, rolePermissions, assignments, relations, policies, now, checked,
                       mergeIn, mergeOut, evalIn, evalOut, inherit, walk, cache, plugins, trace,
                       heap, config>>

\* Store.DeleteRole(ctx, roleID)
DeleteRoleCall(roleID) ==
    LET out == DeleteRole(roles, rolePermissions, roleID)
    IN  /\ roles' = out.roles
        /\ rolePermissions' = out.rolePermissions
        /\ call' = Caller("DeleteRole", out.err, call.held)
        /\ UNCHANGED <<permissions, assignments, relations, policies, now, checked,
                       mergeIn, mergeOut, evalIn, evalOut, inherit, walk, cache, plugins, trace,
                       heap, config>>

\* the caller assigns a field of a struct it holds: r.Slug = slug
AssignSlug(r, slug) ==
    /\ r \in call.held
    /\ call' = Caller("write", "nil", (call.held \ {r}) \cup {[r EXCEPT !.slug = slug]})
    /\ UNCHANGED <<storeVars, now, checked, mergeIn, mergeOut, evalIn, evalOut, inherit, walk,
                   cache, plugins, trace, heap, config>>

\* the caller writes to the map of a struct it holds: r.Metadata[k] = v
WriteMetadata(r, metadata) ==
    /\ r \in call.held
    /\ r.metadata # NilAddr
    /\ heap' = [heap EXCEPT ![r.metadata] = metadata]
    /\ call' = Caller("write", "nil", call.held)
    /\ UNCHANGED <<storeVars, now, checked, mergeIn, mergeOut, evalIn, evalOut, inherit, walk,
                   cache, plugins, trace, config>>

\* the caller writes through the pointer of a struct it holds: *r.ParentID = parent
WriteParentID(r, parent) ==
    /\ r \in call.held
    /\ r.parentID # NilAddr
    /\ heap' = [heap EXCEPT ![r.parentID] = parent]
    /\ call' = Caller("write", "nil", call.held)
    /\ UNCHANGED <<storeVars, now, checked, mergeIn, mergeOut, evalIn, evalOut, inherit, walk,
                   cache, plugins, trace, config>>

NextRoleStore ==
    \/ \E roleID \in StoredRoleIDs, slug \in RoleSlugs, parent \in {None, "R2"},
          metadata \in {Nil, ("env" :> "prod")} :
          CreateRoleCall(roleID, <<"t">>, slug, parent, metadata)
    \/ \E roleID \in StoredRoleIDs : GetRoleCall(roleID)
    \/ \E slug \in RoleSlugs : \E first \in SlugMatches(roles, <<"t">>, slug) :
          GetRoleBySlugCall(<<"t">>, slug, first)
    \/ \E r \in call.held : UpdateRoleCall(r)
    \/ \E roleID \in StoredRoleIDs : DeleteRoleCall(roleID)
    \/ \E r \in call.held, slug \in RoleSlugs : AssignSlug(r, slug)
    \/ \E r \in call.held, metadata \in MetadataValues : WriteMetadata(r, metadata)
    \/ \E r \in call.held, parent \in StoredRoleIDs : WriteParentID(r, parent)

SpecRoleStore == InitRoleStore /\ [][NextRoleStore]_vars

\* C19: store ownership.  When the caller changes a struct it passed to
\* CreateRole or UpdateRole or got from GetRole (a field, the map behind
\* Metadata, the id behind ParentID), what GetRole returns for every stored
\* role reads as before.
C19_StoreOwnership ==
    [][(call'.op = "write") =>
          \A roleID \in DOMAIN roles :
              Read(GetRole(roles', roleID).role, heap') = Read(GetRole(roles, roleID).role, heap)]_vars

\* C20: no two stored roles of one tenant have the same slug.
C20_SlugUnique ==
    \A r1, r2 \in DOMAIN roles :
        (r1 # r2 /\ roles[r1].tenant = roles[r2].tenant) => roles[r1].slug # roles[r2].slug

----------------------------------------------------------------------------
(* Package id: TypeID-based identifiers                                    *)
(*                                                                         *)
(* An identifier's text is "prefix_suffix".  The text is a sequence of     *)
(* one-character strings, so formatting is concatenation and parsing       *)
(* splits the text again.                                                  *)

PrefixRole == <<"r", "o", "l", "e">>
PrefixPermission == <<"p", "e", "r", "m">>
PrefixAssignment == <<"a", "s", "g", "n">>
PrefixPolicy == <<"w", "p", "o", "l">>
PrefixRelation == <<"r", "e", "l">>
PrefixCheckLog == <<"c", "h", "k", "l", "o", "g">>
PrefixResourceType == <<"r", "t", "y", "p", "e">>
PrefixCondition == <<"c", "o", "n", "d">>

EntityPrefixes ==
    {PrefixRole, PrefixPermission, PrefixAssignment, PrefixPolicy,
     PrefixRelation, PrefixCheckLog, PrefixResourceType, PrefixCondition}

SuffixLen == 2   \* characters in the suffix of a TypeID (26 in the library)

\* the characters a TypeID prefix may contain
PrefixLetters ==
    {"a", "c", "d", "e", "g", "h", "k", "l", "m", "n", "o", "p", "r", "s", "t", "w", "y"}

\* the characters a TypeID suffix is drawn from (base32 digits)
SuffixDigits == {"0", "1"}

\* typeid.TypeID: a prefix and a suffix
TypeID(prefix, suffix) == [prefix |-> prefix, suffix |-> suffix]

\* the zero typeid.TypeID
ZeroTypeID == TypeID(<<>>, <<>>)

\* TypeID.String: prefix, "_", suffix; the suffix alone without a prefix
TypeIDString(tid) ==
    IF tid.prefix = <<>> THEN tid.suffix ELSE tid.prefix \o <<"_">> \o tid.suffix

\* strings.LastIndex(s, "_"), 0 when s has no "_"
LastUnderscore(s) ==
    IF \E i \in 1..Len(s) : s[i] = "_"
    THEN CHOOSE i \in 1..Len(s) : s[i] = "_" /\ \A j \in (i + 1)..Len(s) : s[j] # "_"
    ELSE 0

\* typeid.Parse: split at the last "_", then validate the prefix (lower
\* case letters and inner "_") and the suffix (SuffixLen base32 digits)
TypeIDParse(s) ==
    LET at == LastUnderscore(s)
        prefix == IF at = 0 THEN <<>> ELSE SubSeq(s, 1, at - 1)
        suffix == SubSeq(s, at + 1, Len(s))
    IN  IF at # 0 /\ prefix = <<>> THEN [tid |-> ZeroTypeID, err |-> "empty prefix"]
        ELSE IF \E i \in 1..Len(prefix) : prefix[i] \notin PrefixLetters \cup {"_"}
             THEN [tid |-> ZeroTypeID, err |-> "invalid prefix"]
        ELSE IF prefix # <<>> /\ (prefix[1] = "_" \/ prefix[Len(prefix)] = "_")
             THEN [tid |-> ZeroTypeID, err |-> "invalid prefix"]
        ELSE IF Len(suffix) # SuffixLen \/ \E i \in 1..Len(suffix) : suffix[i] \notin SuffixDigits
             THEN [tid |-> ZeroTypeID, err |-> "invalid suffix"]
        ELSE [tid |-> TypeID(prefix, suffix), err |-> "nil"]

\* id.ID
ID(inner, valid) == [inner |-> inner, valid |-> valid]

\* id.Nil
NilID == ID(ZeroTypeID, FALSE)

\* id.New, with the suffix typeid.Generate drew
New(prefix, suffix) == ID(TypeID(prefix, suffix), TRUE)

\* id.Parse
Parse(s) ==
    IF s = <<>> THEN [id |-> NilID, err |-> "empty string"]
    ELSE LET parsed == TypeIDParse(s)
         IN  IF parsed.err # "nil" THEN [id |-> NilID, err |-> parsed.err]
             ELSE [id |-> ID(parsed.tid, TRUE), err |-> "nil"]

\* ID.String
String(i) == IF ~i.valid THEN <<>> ELSE TypeIDString(i.inner)

\* ID.Prefix
Prefix(i) == IF ~i.valid THEN <<>> ELSE i.inner.prefix

\* id.ParseWithPrefix without the comparison of the prefix
ParseAnyPrefix(s, expected) == Parse(s)

\* id.ParseWithPrefix
ParseWithPrefix(s, expected) ==
    LET parsed == Parse(s)
    IN  IF parsed.err # "nil" THEN [id |-> NilID, err |-> parsed.err]
        ELSE IF Prefix(parsed.id) # expected THEN [id |-> NilID, err |-> "expected prefix"]
        ELSE parsed

\* ID.IsNil
IsNil(i) == ~i.valid

\* ID.MarshalText
MarshalText(i) == IF ~i.valid THEN <<>> ELSE TypeIDString(i.inner)

\* ID.UnmarshalText: the identifier the receiver holds afterwards, and the error
UnmarshalText(i, data) ==
    IF Len(data) = 0 THEN [id |-> NilID, err |-> "nil"]
    ELSE LET parsed == Parse(data)
         IN  IF parsed.err # "nil" THEN [id |-> i, err |-> parsed.err]
             ELSE [id |-> parsed.id, err |-> "nil"]

\* a driver.Value: NULL, a string, or a value of another type
Null == [type |-> "nil"]
StringValue(s) == [type |-> "string", v |-> s]
BytesValue(s) == [type |-> "[]byte", v |-> s]
\* an int64 column value, v its decimal text
IntValue(n) == [type |-> "int64", v |-> n]

\* ID.Value
Value(i) == IF ~i.valid THEN Null ELSE StringValue(TypeIDString(i.inner))

\* ID.Scan: the identifier the receiver holds afterwards, and the error
Scan(i, src) ==
    IF src = Null THEN [id |-> NilID, err |-> "nil"]
    ELSE IF src.type = "string"
         THEN IF src.v = <<>> THEN [id |-> NilID, err |-> "nil"] ELSE UnmarshalText(i, src.v)
    ELSE IF src.type = "[]byte"
         THEN IF Len(src.v) = 0 THEN [id |-> NilID, err |-> "nil"] ELSE UnmarshalText(i, src.v)
    ELSE [id |-> i, err |-> "cannot scan"]

\* The identifier specification: a caller holds one identifier (heap), the
\* zero value or a generated one, and parses, marshals and scans texts.

Suffixes == [1..SuffixLen -> SuffixDigits]

\* texts that are not the text of an identifier
Malformed ==
    {<<"r", "o", "l", "e">>, <<"r", "o", "l", "e", "_">>, <<"_", "0", "1">>,
     <<"R", "_", "0", "1">>, <<"r", "e", "l", "_", "0", "z">>}

\* the prefixes a caller may expect: the eight entity prefixes and none
ExpectedPrefixes == EntityPrefixes \cup {<<>>}

IDCall(op, x, s, expected, out) ==
    [done |-> TRUE, op |-> op, x |-> x, s |-> s, expected |-> expected,
     id |-> out.id, err |-> out.err]

InitID ==
    /\ StoreIs(Store(EmptyMap, EmptyMap, EmptyMap, EmptyMap, EmptyMap, EmptyMap))
    /\ now = 1
    /\ checked = NoCall
    /\ mergeIn = NoCall
    /\ mergeOut = NoCall
    /\ evalIn = NoCall
    /\ evalOut = NoCall
    /\ inherit = NoCall
    /\ walk = NoCall
    /\ cache = NoCall
    /\ plugins = NoCall
    /\ trace = NoCall
    /\ config = NoCall
    /\ call = NoCall
    /\ heap = NilID

idFrame ==
    UNCHANGED <<storeVars, now, checked, mergeIn, mergeOut, evalIn, evalOut, inherit,
                walk, cache, plugins, trace, config>>

\* x := id.New(prefix)
NewCall(prefix, suffix) ==
    /\ heap' = New(prefix, suffix)
    /\ call' = IDCall("New", heap, <<>>, prefix, [id |-> heap', err |-> "nil"])
    /\ idFrame

\* var x id.ID
ZeroCall ==
    /\ heap' = NilID
    /\ call' = IDCall("Zero", heap, <<>>, <<>>, [id |-> NilID, err |-> "nil"])
    /\ idFrame

\* id.Parse(s), of the text of the held identifier or of another text
ParseCall(s) ==
    /\ call' = IDCall("Parse", heap, s, <<>>, Parse(s))
    /\ UNCHANGED heap
    /\ idFrame

\* id.ParseWithPrefix(s, expected)
ParseWithPrefixCall(s, expected) ==
    /\ call' = IDCall("ParseWithPrefix", heap, s, expected, ParseWithPrefix(s, expected))
    /\ UNCHANGED heap
    /\ idFrame

\* data, _ := x.MarshalText(); var restored id.ID; restored.UnmarshalText(data)
TextRoundTrip ==
    /\ call' = IDCall("UnmarshalText", heap, MarshalText(heap), <<>>,
                      UnmarshalText(NilID, MarshalText(heap)))
    /\ UNCHANGED heap
    /\ idFrame

\* restored.UnmarshalText(data) of a text that is not an identifier's
UnmarshalTextCall(data) ==
    /\ call' = IDCall("UnmarshalText", heap, data, <<>>, UnmarshalText(heap, data))
    /\ heap' = call'.id
    /\ idFrame

\* val, _ := x.Value(); var scanned id.ID; scanned.Scan(val)
ValueRoundTrip ==
    /\ call' = IDCall("Scan", heap, Value(heap), <<>>, Scan(NilID, Value(heap)))
    /\ UNCHANGED heap
    /\ idFrame

\* x.Scan(src) of a column value
ScanCall(src) ==
    /\ call' = IDCall("Scan", heap, src, <<>>, Scan(heap, src))
    /\ heap' = call'.id
    /\ idFrame

NextID ==
    \/ \E prefix \in EntityPrefixes, suffix \in Suffixes : NewCall(prefix, suffix)
    \/ ZeroCall
    \/ \E s \in {String(heap)} \cup Malformed : ParseCall(s)
    \/ \E s \in {String(heap)} \cup Malformed, expected \in ExpectedPrefixes :
          ParseWithPrefixCall(s, expected)
    \/ TextRoundTrip
    \/ \E data \in Malformed \cup {<<>>} : UnmarshalTextCall(data)
    \/ ValueRoundTrip
    \/ \E src \in {Null, StringValue(<<>>), BytesValue(<<>>), IntValue(<<"7">>),
                   StringValue(String(heap)), BytesValue(String(heap))} : ScanCall(src)

SpecID == InitID /\ [][NextID]_vars

\* the last call was op on the text or database value s
Decoded(op, s) == call # NoCall /\ call.op = op /\ call.s = s

\* C21: identifier round trip and cross-type safety.  For a generated
\* identifier x, Parse(x.String()) and ParseWithPrefix(x.String(),
\* x.Prefix()) succeed with an identifier of the same text, and
\* ParseWithPrefix(x.String(), p) fails for every other prefix p; the zero
\* identifier has empty text and prefix, and its text encoding (empty) and
\* database encoding (NULL) decode to the zero identifier.
C21_IDRoundTrip ==
    /\ IsNil(heap) => String(heap) = <<>> /\ Prefix(heap) = <<>>
    /\ call # NoCall =>
        LET x == call.x
        IN  /\ (~IsNil(x) /\ Decoded("Parse", String(x)))
                  => call.err = "nil" /\ String(call.id) = String(x)
            /\ (~IsNil(x) /\ Decoded("ParseWithPrefix", String(x)))
                  => IF call.expected = Prefix(x)
                     THEN call.err = "nil" /\ String(call.id) = String(x)
                     ELSE call.err # "nil"
            /\ (~IsNil(x) /\ Decoded("UnmarshalText", MarshalText(x)))
                  => call.err = "nil" /\ String(call.id) = String(x)
            /\ (~IsNil(x) /\ Decoded("Scan", Value(x)))
                  => call.err = "nil" /\ String(call.id) = String(x)
            /\ (IsNil(x) /\ Decoded("UnmarshalText", MarshalText(x)))
                  => call.err = "nil" /\ call.id = NilID
            /\ (IsNil(x) /\ Decoded("Scan", Value(x)))
                  => call.err = "nil" /\ call.id = NilID

\* a generated identifier's text was parsed against a foreign prefix and
\* refused
C21_Witness ==
    /\ call # NoCall
    /\ ~IsNil(call.x)
    /\ Decoded("ParseWithPrefix", String(call.x))
    /\ call.expected \in EntityPrefixes \ {Prefix(call.x)}
    /\ call.err # "nil"

----------------------------------------------------------------------------
(* The subject filter of a policy: Evaluate over one policy that has a     *)
(* subject list and no other filter, next to a store in which user a holds *)
(* role R1 and user b holds no role                                        *)

\* the SubjectMatch entries of the lists: each field empty or set
SubjectMatches ==
    {SubjectMatch(kind, sid, role) :
        kind \in {<<>>, User, <<"group">>},
        sid \in {<<>>, <<"a">>, <<"b">>},
        role \in {<<>>, <<"R1">>}}

\* subject lists of at most two entries
SubjectLists ==
    {<<>>} \cup {<<sm>> : sm \in SubjectMatches}
           \cup {<<sm1, sm2>> : sm1 \in SubjectMatches, sm2 \in SubjectMatches}

\* a policy that filters by subject only
SubjectPolicy(effect, subjects) ==
    Policy("X1", <<"t">>, "subjects", effect, TRUE, subjects, <<>>, <<>>, <<>>)

\* user a is assigned role R1 in tenant "t"
SubjectStore ==
    Store(("R1" :> Role(<<"t">>, NilPtr)), ("P1" :> PermRead), ("R1" :> {"P1"}),
          Restrict(AssignmentPool, {"A1"}), EmptyMap, EmptyMap)

InitSubject ==
    /\ ExtIdle
    /\ StoreIs(SubjectStore)
    /\ now = 1
    /\ checked = NoCall
    /\ mergeIn = NoCall
    /\ mergeOut = NoCall
    /\ evalIn \in [done : {TRUE},
                   policies : {<<SubjectPolicy(effect, subjects)>> :
                                  effect \in {EffectAllow, EffectDeny}, subjects \in SubjectLists},
                   req : Requests]
    /\ evalOut = NoCall
    /\ inherit = NoCall
    /\ walk = NoCall

NextSubject == EvaluateCall

SpecSubject == InitSubject /\ [][NextSubject]_vars

\* the subject of the request is assigned the role of that name
HoldsRole(req, role) ==
    \E a \in DOMAIN assignments :
        /\ assignments[a].subjectKind = req.subject.kind
        /\ assignments[a].subjectID = req.subject.id
        /\ <<assignments[a].role>> = role

\* every non-empty field of the entry matches the subject of the request
EntryMatches(sm, req) ==
    /\ sm.kind # <<>> => sm.kind = req.subject.kind
    /\ sm.id # <<>> => sm.id = req.subject.id
    /\ sm.role # <<>> => HoldsRole(req, sm.role)

\* C22: the ABAC subject filter.  A policy with an empty subject list
\* applies to every subject; with a non-empty list it applies only if some
\* entry matches the subject on each of its non-empty fields kind, id and
\* role, so an entry that names a role does not match a subject that does
\* not hold the role.
C22_SubjectFilter ==
    evalOut # NoCall =>
        LET pol == evalIn.policies[1]
            applies == \/ Len(pol.subjects) = 0
                       \/ \E i \in 1..Len(pol.subjects) : EntryMatches(pol.subjects[i], evalIn.req)
        IN  /\ evalOut.out.err = "nil"
            /\ evalOut.out.res # Nil <=> applies

----------------------------------------------------------------------------
(* Check over policies with invalid conditions                             *)

\* policy.Operator: the operators evaluateCondition knows
Operators ==
    {"eq", "neq", "in", "not_in", "contains", "starts_with", "ends_with", "gt", "lt",
     "gte", "lte", "exists", "not_exists", "ip_in_cidr", "time_after", "time_before", "regex"}

\* allow-all; an allow policy with the unknown operator "like"; the same for
\* action w only; a deny policy whose first condition compares context.ip and
\* whose second is a regex that does not compile
InvalidPolicies ==
    Restrict(FailPolicies, {"X1", "X7"}) @@
    ("X8" :> Policy("X8", <<"t">>, "allow-like-w", EffectAllow, TRUE, <<>>, <<<<"w">>>>, <<>>,
                    <<Condition(<<"resource", ".", "id">>, "like", StrVal(<<"1">>))>>)) @@
    ("X9" :> Policy("X9", <<"t">>, "deny-regex", EffectDeny, TRUE, <<>>, <<>>, <<>>,
                    <<Condition(<<"context", ".", "ip">>, "eq", StrVal(<<"x">>)),
                      Condition(<<"resource", ".", "id">>, "regex", StrVal(<<"(">>))>>))

InvalidStores ==
    {Store(("R1" :> Role(<<"t">>, NilPtr)), ("P1" :> PermRead), ("R1" :> {"P1"}),
           Restrict(AssignmentPool, {"A1"}), EmptyMap, Restrict(InvalidPolicies, X)) :
        X \in SUBSET DOMAIN InvalidPolicies}

\* all models, RBAC alone, ABAC alone
InvalidConfigs ==
    {Config(TRUE, TRUE, TRUE, DefaultMaxGraphDepth), Config(TRUE, FALSE, FALSE, DefaultMaxGraphDepth),
     Config(FALSE, FALSE, TRUE, DefaultMaxGraphDepth)}

InitInvalid ==
    /\ \E st \in InvalidStores : StoreIs(st)
    /\ now = 1
    /\ checked = NoCall
    /\ CallsIdle

NextInvalid ==
    \/ \E tenantID \in TenantIDs, req \in FailRequests, cfg \in InvalidConfigs, ord \in Orders(St) :
          CheckCall(tenantID, req, cfg, ord)
    \/ CheckReturn

SpecInvalid == InitInvalid /\ [][NextInvalid]_vars

\* the condition has an unknown operator or a regex that does not compile
IsInvalid(c) ==
    \/ c.operator \notin Operators
    \/ c.operator = "regex" /\ ~RegexCompiles(Sprint(c.value))

\* the policies of the checked tenant that are active
ActivePoliciesChecked ==
    {p \in DOMAIN policies : policies[p].tenant = checked.tenant /\ policies[p].isActive}

\* the Check ended in an ABAC error that wraps ErrInvalidCondition
FailedInvalid ==
    /\ checked.out.err # <<>>
    /\ checked.out.res = Nil
    /\ checked.out.err[1] = "warden abac: "
    /\ ErrInvalidCondition \in Range(checked.out.err)

\* the evaluation of the policy for the request comes to an invalid
\* condition: the filters match and the conditions before it hold
ReachesInvalid(pol, req) ==
    /\ matchesSubject(pol, req)
    /\ matchesAction(pol, req)
    /\ matchesResource(pol, req)
    /\ \E i \in 1..Len(pol.conditions) :
          /\ IsInvalid(pol.conditions[i])
          /\ \A j \in 1..(i - 1) :
                LET c == pol.conditions[j]
                IN  evaluateCondition(c.operator, resolveField(c.field, req), c.value) = Ok(TRUE)

\* C23 as stated: if an active policy of the request's tenant contains an
\* invalid condition (unknown operator, malformed regex), a Check with ABAC
\* enabled fails with a "warden abac:" error that wraps ErrInvalidCondition.
C23_InvalidFatal ==
    (/\ checked # NoCall
     /\ checked.cfg.abac
     /\ \E p \in ActivePoliciesChecked :
           \E i \in 1..Len(policies[p].conditions) : IsInvalid(policies[p].conditions[i]))
        => FailedInvalid

\* C23 amended: a Check with ABAC enabled fails with a "warden abac:" error
\* that wraps ErrInvalidCondition exactly if the evaluation of some active
\* policy of the request's tenant reaches an invalid condition; an invalid
\* condition in a policy whose filters do not match the request, or behind a
\* condition that does not hold, leaves the decision as it is without it.
C23_ReachedInvalidFatal ==
    (checked # NoCall /\ checked.cfg.abac) =>
        IF \E p \in ActivePoliciesChecked : ReachesInvalid(policies[p], checked.req)
        THEN FailedInvalid
        ELSE checked.out.err = <<>> /\ checked.out.res # Nil

\* a Check failed on the regex of deny-regex, which the request with
\* context.ip = x reaches
C23_Witness ==
    /\ checked # NoCall
    /\ checked.cfg.abac
    /\ DOMAIN policies = {"X9"}
    /\ ReachesInvalid(policies["X9"], checked.req)
    /\ FailedInvalid

----------------------------------------------------------------------------
(* Not-found errors: the store's Get methods and the API's error mapper    *)
(*                                                                         *)
(* An error is the chain errors.Is walks: the error itself, then the one   *)
(* it wraps, and so on; the nil error is the empty chain.                  *)

ErrRoleNotFound == "warden: role not found"
ErrPermissionNotFound == "warden: permission not found"
ErrAssignmentNotFound == "warden: assignment not found"
ErrPolicyNotFound == "warden: policy not found"
ErrRelationNotFound == "warden: relation not found"
ErrResourceTypeNotFound == "warden: resource type not found"
ErrSystemRoleImmutable == "warden: system role cannot be modified"
ErrSystemPermissionImmutable == "warden: system permission cannot be modified"
ErrDuplicateAssignment == "warden: role already assigned to subject"
ErrDuplicateRelation == "warden: relation tuple already exists"
ErrCyclicRoleInheritance == "warden: cyclic role inheritance detected"
ErrMaxMembersExceeded == "warden: role max members exceeded"

\* errors.New(text)
ErrorsNew(text) == <<text>>

\* fmt.Errorf(text + ": %w", err)
Errorf(text, err) == <<text>> \o err

\* errors.Is(err, target) on the chain of err, for a target made by errors.New
Is(err, target) == target \in Range(err)

\* Store.GetPermission(ctx, permID)
GetPermission(ps, permID) ==
    IF permID \notin DOMAIN ps THEN [value |-> Nil, err |-> errNotFound]
    ELSE [value |-> ps[permID], err |-> "nil"]

\* Store.GetAssignment(ctx, assID)
GetAssignment(as, assID) ==
    IF assID \notin DOMAIN as THEN [value |-> Nil, err |-> errNotFound]
    ELSE [value |-> as[assID], err |-> "nil"]

\* Store.GetPolicy(ctx, polID)
GetPolicy(xs, polID) ==
    IF polID \notin DOMAIN xs THEN [value |-> Nil, err |-> errNotFound]
    ELSE [value |-> xs[polID], err |-> "nil"]

\* Store.GetResourceType(ctx, rtID)
GetResourceType(rts, rtID) ==
    IF rtID \notin DOMAIN rts THEN [value |-> Nil, err |-> errNotFound]
    ELSE [value |-> rts[rtID], err |-> "nil"]

\* the error value of a Get: fmt.Errorf("role %s: %w", roleID, errNotFound)
GetError(what, err) ==
    IF err = "nil" THEN <<>> ELSE Errorf(what, ErrorsNew(err))

\* isNotFound
isNotFound(err) ==
    \/ Is(err, ErrRoleNotFound)
    \/ Is(err, ErrPermissionNotFound)
    \/ Is(err, ErrAssignmentNotFound)
    \/ Is(err, ErrPolicyNotFound)
    \/ Is(err, ErrRelationNotFound)
    \/ Is(err, ErrResourceTypeNotFound)

\* mapError: the kind of HTTP error the handler returns; an error that is
\* returned as it is has no kind and the server answers 500
mapError(err) ==
    IF err = <<>> THEN "nil"
    ELSE IF isNotFound(err) THEN "NotFound"
    ELSE IF Is(err, ErrSystemRoleImmutable) \/ Is(err, ErrSystemPermissionImmutable)
         THEN "BadRequest"
    ELSE IF Is(err, ErrDuplicateAssignment) \/ Is(err, ErrDuplicateRelation)
         THEN "BadRequest"
    ELSE IF Is(err, ErrCyclicRoleInheritance) \/ Is(err, ErrMaxMembersExceeded)
         THEN "BadRequest"
    ELSE IF Is(err, ErrInvalidCondition) THEN "BadRequest"
    ELSE IF Is(err, ErrAccessDenied) THEN "Forbidden"
    ELSE "unclassified"

\* The specification: a store that holds any of one role, permission,
\* assignment, policy and resource type (the resource types in heap), and
\* the API's get handlers called with the id of a stored or a missing entity.

EntityKinds == {"role", "permission", "assignment", "policy", "resource type"}

\* resourcetype.ResourceType
ResourceType(tenant, name) == [tenant |-> tenant, name |-> name]

MissingID == "missing"

InitNotFound ==
    /\ \E r \in SUBSET {"R1"}, p \in SUBSET {"P1"}, a \in SUBSET {"A1"}, x \in SUBSET {"X1"} :
          StoreIs(Store([k \in r |-> RoleStruct(k, <<"t">>, <<"editor">>, NilPtr, Nil)],
                        [k \in p |-> PermRead], EmptyMap,
                        Restrict(AssignmentPool, a), EmptyMap, Restrict(PolicyPool, x)))
    /\ heap \in {[k \in rt |-> ResourceType(<<"t">>, <<"d">>)] : rt \in SUBSET {"RT1"}}
    /\ now = 1
    /\ checked = NoCall
    /\ mergeIn = NoCall
    /\ mergeOut = NoCall
    /\ evalIn = NoCall
    /\ evalOut = NoCall
    /\ inherit = NoCall
    /\ walk = NoCall
    /\ cache = NoCall
    /\ plugins = NoCall
    /\ trace = NoCall
    /\ config = NoCall
    /\ call = NoCall

\* what a get handler did: the entity kind, the id, whether the entity is
\* persisted, the store's error and what mapError made of it
Handled(kind, entityID, persisted, err) ==
    [done |-> TRUE, kind |-> kind, id |-> entityID, persisted |-> persisted, err |-> err,
     http |-> mapError(err)]

notFoundFrame ==
    UNCHANGED <<storeVars, now, checked, mergeIn, mergeOut, evalIn, evalOut, inherit, walk,
                cache, plugins, trace, heap, config>>

\* API.getRole
getRole(roleID) ==
    /\ call' = Handled("role", roleID, roleID \in DOMAIN roles,
                       GetError("role", GetRole(roles, roleID).err))
    /\ notFoundFrame

\* API.getPermission
getPermission(permID) ==
    /\ call' = Handled("permission", permID, permID \in DOMAIN permissions,
                       GetError("permission", GetPermission(permissions, permID).err))
    /\ notFoundFrame

\* API.unassignRole up to the return of GetAssignment's error
getAssignment(assID) ==
    /\ call' = Handled("assignment", assID, assID \in DOMAIN assignments,
                       GetError("assignment", GetAssignment(assignments, assID).err))
    /\ notFoundFrame

\* API.getPolicy
getPolicy(polID) ==
    /\ call' = Handled("policy", polID, polID \in DOMAIN policies,
                       GetError("policy", GetPolicy(policies, polID).err))
    /\ notFoundFrame

\* API.getResourceType
getResourceType(rtID) ==
    /\ call' = Handled("resource type", rtID, rtID \in DOMAIN heap,
                       GetError("resource type", GetResourceType(heap, rtID).err))
    /\ notFoundFrame

\* a handler maps an error that wraps one of warden's identities
mapWardenError(err) ==
    /\ call' = Handled("warden", MissingID, FALSE, Errorf("handler", ErrorsNew(err)))
    /\ notFoundFrame

NextNotFound ==
    \/ \E roleID \in {"R1", MissingID} : getRole(roleID)
    \/ \E permID \in {"P1", MissingID} : getPermission(permID)
    \/ \E assID \in {"A1", MissingID} : getAssignment(assID)
    \/ \E polID \in {"X1", MissingID} : getPolicy(polID)
    \/ \E rtID \in {"RT1", MissingID} : getResourceType(rtID)
    \/ \E err \in {ErrRoleNotFound, ErrPolicyNotFound, ErrDuplicateRelation, ErrAccessDenied,
                   ErrDriver} : mapWardenError(err)

SpecNotFound == InitNotFound /\ [][NextNotFound]_vars

\* C24: not-found keeps its error kind.  A store Get of an id that is not
\* persisted returns an error that the API error mapper classifies as
\* not-found (404), not one that falls through unclassified (500).
C24_NotFoundKind ==
    (call # NoCall /\ call.kind \in EntityKinds /\ ~call.persisted) =>
        /\ call.err # <<>>
        /\ isNotFound(call.err)
        /\ call.http = "NotFound"

----------------------------------------------------------------------------
(* Engine.Check with a cache, and the context of the request               *)

\* C25: cached decisions respect the request context.  A Check whose
\* request is matched by an active deny policy of its tenant, through the
\* context of the request or otherwise, does not return an allowed result,
\* whether or not a request that differs from it only in its context was
\* allowed and cached before.
C25_CacheRespectsContext ==
    (/\ call # NoCall
     /\ call.op = "Check"
     /\ call.err = <<>>
     /\ config.abac
     /\ DenyPolicyApplies(St, call.tenant, call.req))
        => ~call.res.allowed

----------------------------------------------------------------------------
(* cache.Memory and requests whose fields contain ":"                      *)

\* the (tenant, request) pairs: the user "a:r" with action w, the user "a"
\* with action "r:w", and the user "b" with action w
KeyCalls ==
    {[tenant |-> <<"t">>, req |-> Request(User, <<"a", ":", "r">>, <<"w">>, <<"d">>, <<"1">>, NoContext)],
     [tenant |-> <<"t">>, req |-> Request(User, <<"a">>, <<"r", ":", "w">>, <<"d">>, <<"1">>, NoContext)],
     [tenant |-> <<"t">>, req |-> Request(User, <<"b">>, <<"w">>, <<"d">>, <<"1">>, NoContext)]}

\* Memory.Get(ctx, k.tenant, k.req), with the arguments in the call record
KeyGet(k) ==
    LET got == Get(cache, now, k.tenant, k.req)
    IN  /\ cache' = got.cache
        /\ trace' = Restrict(trace, DOMAIN cache'.entries)
        /\ call' = [done |-> TRUE, op |-> "Get", tenant |-> k.tenant, req |-> k.req,
                    key |-> cacheKey(k.tenant, k.req), ok |-> got.ok, result |-> got.result]
        /\ UNCHANGED <<storeVars, now, checked, mergeIn, mergeOut, evalIn, evalOut, inherit, walk,
                       plugins, heap, config>>

NextKeys ==
    \/ \E k \in KeyCalls, result \in CacheResults, first \in Victims(cache, now) :
          CacheSet(k, result, first)
    \/ \E k \in KeyCalls : KeyGet(k)
    \/ CacheTick

SpecKeys == InitCache /\ [][NextKeys]_vars

\* C26: the cache key is injective.  Two (tenant, subject kind, subject id,
\* action, resource type, resource id) tuples that differ in a component,
\* ":" in the values included, never have the same key: a Get that hits
\* returns a result that was Set for the same tenant and the same request.
C26_KeyInjective ==
    (call # NoCall /\ call.op = "Get" /\ call.ok) =>
        /\ trace[call.key].tenant = call.tenant
        /\ trace[call.key].req = call.req

----------------------------------------------------------------------------
(* cache.Memory under concurrent calls.  Set holds the write lock from     *)
(* its first statement to its return and is one step.  Get is three:       *)
(* the lookup under the read lock, the comparison of time.Now() with the   *)
(* expiresAt of the entry it read, and the delete under the write lock.    *)
(* heap holds, per goroutine, where its Get stands and the entry it read.  *)

Goroutines == {"g1", "g2"}

\* NewMemory's maxSize
DefaultMaxSize == 10000

\* the (tenant, request) pairs of the concurrent calls
RaceCalls ==
    {[tenant |-> <<"t">>, req |-> Request(User, <<"a">>, <<"r">>, <<"d">>, <<"1">>, NoContext)],
     [tenant |-> <<"t">>, req |-> Request(User, <<"b">>, <<"r">>, <<"d">>, <<"1">>, NoContext)]}

\* a goroutine that is not inside Get
Idle == [pc |-> "idle"]

\* no entry: the lookup found nothing, or the delete removed nothing
NoEntry == [isNil |-> TRUE]

InitRace ==
    /\ StoreIs(Store(EmptyMap, EmptyMap, EmptyMap, EmptyMap, EmptyMap, EmptyMap))
    /\ now = 1
    /\ checked = NoCall
    /\ mergeIn = NoCall
    /\ mergeOut = NoCall
    /\ evalIn = NoCall
    /\ evalOut = NoCall
    /\ inherit = NoCall
    /\ walk = NoCall
    /\ cache = NewMemory(CacheTTL, DefaultMaxSize)
    /\ plugins = NoCall
    /\ trace = EmptyMap
    /\ call = NoCall
    /\ heap = [g \in Goroutines |-> Idle]
    /\ config = NoCall

raceFrame ==
    UNCHANGED <<storeVars, checked, mergeIn, mergeOut, evalIn, evalOut, inherit, walk,
                plugins, config>>

\* what a Get returned: the key, (result, ok), the entry its delete removed
\* from the map (NoEntry if it deleted nothing) and the time of the delete
GetReturned(key, result, ok, removed) ==
    [done |-> TRUE, op |-> "Get", key |-> key, result |-> result, ok |-> ok,
     removed |-> removed, at |-> now]

\* Memory.Set(ctx, k.tenant, k.req, result), by any goroutine
RaceSet(k, result) ==
    /\ cache' = Set(cache, now, k.tenant, k.req, result, <<None>>)
    /\ trace' = (cacheKey(k.tenant, k.req) :> Stored(k, result, now)) @@ trace
    /\ call' = [done |-> TRUE, op |-> "Set", key |-> cacheKey(k.tenant, k.req)]
    /\ UNCHANGED <<now, heap>>
    /\ raceFrame

\* Get: m.mu.RLock(); e, ok := m.entries[key]; m.mu.RUnlock()
GetLookup(g, k) ==
    LET key == cacheKey(k.tenant, k.req)
    IN  /\ heap[g] = Idle
        /\ heap' = [heap EXCEPT ![g] =
                       [pc |-> "looked up", key |-> key,
                        e |-> IF key \in DOMAIN cache.entries THEN cache.entries[key] ELSE NoEntry]]
        /\ UNCHANGED <<now, cache, trace, call>>
        /\ raceFrame

\* Get: if !ok { return nil, false }; if time.Now().After(e.expiresAt) ...
\* else return e.result, true
GetCompare(g) ==
    /\ heap[g] # Idle
    /\ heap[g].pc = "looked up"
    /\ IF heap[g].e = NoEntry
       THEN /\ heap' = [heap EXCEPT ![g] = Idle]
            /\ call' = GetReturned(heap[g].key, Nil, FALSE, NoEntry)
       ELSE IF now > heap[g].e.expiresAt
       THEN /\ heap' = [heap EXCEPT ![g].pc = "expired"]
            /\ UNCHANGED call
       ELSE /\ heap' = [heap EXCEPT ![g] = Idle]
            /\ call' = GetReturned(heap[g].key, heap[g].e.result, TRUE, NoEntry)
    /\ UNCHANGED <<now, cache, trace>>
    /\ raceFrame

\* Get: m.mu.Lock(); delete(m.entries, key); m.mu.Unlock(); return nil, false
GetDelete(g) ==
    /\ heap[g] # Idle
    /\ heap[g].pc = "expired"
    /\ cache' = [cache EXCEPT !.entries = Without(@, {heap[g].key})]
    /\ trace' = Restrict(trace, DOMAIN cache'.entries)
    /\ call' = GetReturned(heap[g].key, Nil, FALSE,
                           IF heap[g].key \in DOMAIN cache.entries
                           THEN cache.entries[heap[g].key] ELSE NoEntry)
    /\ heap' = [heap EXCEPT ![g] = Idle]
    /\ UNCHANGED now
    /\ raceFrame

\* the clock advances
RaceTick ==
    /\ now < MaxCacheTime
    /\ now' = now + 1
    /\ UNCHANGED <<cache, trace, call, heap>>
    /\ raceFrame

NextRace ==
    \/ \E k \in RaceCalls, result \in CacheResults : RaceSet(k, result)
    \/ \E g \in Goroutines, k \in RaceCalls : GetLookup(g, k)
    \/ \E g \in Goroutines : GetCompare(g)
    \/ \E g \in Goroutines : GetDelete(g)
    \/ RaceTick

SpecRace == InitRace /\ [][NextRace]_vars

\* C27: Get/Set interleaving.  Under concurrent Get and Set a Get deletes
\* an entry only if the entry present at the moment of the deletion is
\* expired, so an unexpired entry written by Set is never removed by a Get.
C27_GetRemovesExpiredOnly ==
    (call # NoCall /\ call.op = "Get" /\ call.removed # NoEntry) =>
        call.at > call.removed.expiresAt

----------------------------------------------------------------------------
(* Engine.Check and the *CheckResult objects it hands out.  heap maps an   *)
(* address to the CheckResult stored there; a cache entry, and a caller    *)
(* that got a result from Check, hold an address.  call holds, for each    *)
(* goroutine, where its Check stands and the address it holds.             *)

MaxElapsed == 2   \* time.Since(start) is 1..MaxElapsed

\* a CheckResult in memory: the decision and EvalTimeNs
ResultCell(result, evalTimeNs) == [result |-> result, evalTimeNs |-> evalTimeNs]

\* a goroutine outside Check that holds the result at addr (NilAddr: none)
Holding(addr) == [pc |-> "idle", addr |-> addr]

InitShared ==
    /\ StoreIs(Store(EmptyMap, EmptyMap, EmptyMap, EmptyMap, EmptyMap, EmptyMap))
    /\ now = 1
    /\ checked = NoCall
    /\ mergeIn = NoCall
    /\ mergeOut = NoCall
    /\ evalIn = NoCall
    /\ evalOut = NoCall
    /\ inherit = NoCall
    /\ walk = NoCall
    /\ cache = NewMemory(CacheTTL, DefaultMaxSize)
    /\ plugins = NoCall
    /\ trace = EmptyMap
    /\ call = [g \in Goroutines |-> Holding(NilAddr)]
    /\ heap = EmptyMap
    /\ config = NoCall

sharedFrame ==
    UNCHANGED <<storeVars, now, checked, mergeIn, mergeOut, evalIn, evalOut, inherit, walk,
                plugins, config>>

\* Check on a cache miss: the evaluators and mergeDecisions build a new
\* result (merged), Check sets its EvalTimeNs, stores the pointer in the
\* cache and returns it.  trace keeps what the result was when it was Set.
CheckMiss(g, k, merged, elapsed) ==
    LET addr == Cardinality(DOMAIN heap) + 1
        probe == Get(cache, now, k.tenant, k.req)
    IN  /\ call[g].pc = "idle"
        /\ ~probe.ok
        /\ heap' = (addr :> ResultCell(merged, elapsed)) @@ heap
        /\ cache' = Set(probe.cache, now, k.tenant, k.req, addr, <<None>>)
        /\ trace' = (cacheKey(k.tenant, k.req) :> heap'[addr]) @@ trace
        /\ call' = [call EXCEPT ![g] = Holding(addr)]
        /\ sharedFrame

\* Check on a cache hit, up to the return of cache.Get
CheckHit(g, k) ==
    LET probe == Get(cache, now, k.tenant, k.req)
    IN  /\ call[g].pc = "idle"
        /\ probe.ok
        /\ call' = [call EXCEPT ![g] = [pc |-> "hit", addr |-> probe.result]]
        /\ UNCHANGED <<cache, trace, heap>>
        /\ sharedFrame

\* Check on a cache hit: cached.EvalTimeNs = time.Since(start).Nanoseconds();
\* return cached, nil
CheckHitReturn(g, elapsed) ==
    /\ call[g].pc = "hit"
    /\ heap' = [heap EXCEPT ![call[g].addr].evalTimeNs = elapsed]
    /\ call' = [call EXCEPT ![g] = Holding(call[g].addr)]
    /\ UNCHANGED <<cache, trace>>
    /\ sharedFrame

\* the caller of Check, or an after-check hook, writes a field of the
\* result it received
CallerWrites(g, result) ==
    /\ call[g].pc = "idle"
    /\ call[g].addr # NilAddr
    /\ heap' = [heap EXCEPT ![call[g].addr].result = result]
    /\ UNCHANGED <<cache, trace, call>>
    /\ sharedFrame

NextShared ==
    \/ \E g \in Goroutines, k \in RaceCalls, merged \in CacheResults, elapsed \in 1..MaxElapsed :
          CheckMiss(g, k, merged, elapsed)
    \/ \E g \in Goroutines, k \in RaceCalls : CheckHit(g, k)
    \/ \E g \in Goroutines, elapsed \in 1..MaxElapsed : CheckHitReturn(g, elapsed)
    \/ \E g \in Goroutines, result \in CacheResults : CallerWrites(g, result)

SpecShared == InitShared /\ [][NextShared]_vars

\* C28: cached results are not shared mutable state.  The CheckResult a
\* cache entry holds is as it was when it was Set: neither a cache-hit
\* Check nor a write of a caller to the result it received changes it, and
\* no two goroutines are about to write to the same result.
C28_CachedResultsImmutable ==
    /\ \A key \in DOMAIN cache.entries : heap[cache.entries[key].result] = trace[key]
    /\ \A g1, g2 \in Goroutines :
          (g1 # g2 /\ call[g1].pc = "hit" /\ call[g2].pc = "hit") => call[g1].addr # call[g2].addr

----------------------------------------------------------------------------
(* Policies created and updated through the API, and checked               *)

\* the effect strings of the API requests: the two effects, none, and
\* strings that are no effect
EffectStrings == {EffectAllow, EffectDeny, "", "audit", "Deny"}

\* the ids id.NewPolicyID() yields
NewPolicyIDs == {"X1", "X2"}

InitEffects ==
    /\ StoreIs(Store(EmptyMap, EmptyMap, EmptyMap, EmptyMap, EmptyMap, EmptyMap))
    /\ now = 1
    /\ checked = NoCall
    /\ CallsIdle

effectsFrame ==
    UNCHANGED <<roles, permissions, rolePermissions, assignments, relations, now, checked,
                mergeIn, mergeOut, evalIn, evalOut, inherit, walk, extVars>>

\* API.createPolicy with a request that names an effect and sets IsActive,
\* and no subjects, actions, resources or conditions; the handler leaves
\* TenantID empty
createPolicy(polID, effect) ==
    /\ checked = NoCall
    /\ polID \notin DOMAIN policies
    /\ Cardinality(DOMAIN policies) < MaxPolicies
    /\ IF effect # EffectAllow /\ effect # EffectDeny
       THEN UNCHANGED policies
       ELSE policies' = (polID :> Policy(polID, <<>>, "p", effect, TRUE, <<>>, <<>>, <<>>, <<>>)) @@ policies
    /\ effectsFrame

\* API.updatePolicy with a request that names an effect only
updatePolicy(polID, effect) ==
    /\ checked = NoCall
    /\ IF GetPolicy(policies, polID).err # "nil" \/ effect = ""
       THEN UNCHANGED policies
       ELSE policies' = [policies EXCEPT ![polID].effect = effect]
    /\ effectsFrame

NextEffects ==
    \/ \E polID \in NewPolicyIDs, effect \in EffectStrings : createPolicy(polID, effect)
    \/ \E polID \in NewPolicyIDs, effect \in EffectStrings : updatePolicy(polID, effect)
    \/ \E tenantID \in TenantIDs, req \in FailRequests, ord \in Orders(St) :
          CheckCall(tenantID, req, Config(FALSE, FALSE, TRUE, DefaultMaxGraphDepth), ord)
    \/ CheckReturn

SpecEffects == InitEffects /\ [][NextEffects]_vars

\* C29: only an allow policy can grant.  ABAC returns an allowed result
\* only if some active policy of the tenant that applies to the request has
\* the effect "allow"; a policy with any other effect never causes a
\* request to be allowed.
C29_OnlyAllowGrants ==
    (checked # NoCall /\ checked.out.abac # Nil /\ checked.out.abac.allowed) =>
        \E p \in DOMAIN policies :
            /\ policies[p].tenant = checked.tenant
            /\ policies[p].isActive
            /\ policies[p].effect = EffectAllow
            /\ PolicyApplies(policies[p], checked.req)

----------------------------------------------------------------------------
(* The order of the policy list                                            *)

\* the list pols in the order p, a permutation of its positions
Permuted(pols, p) == [i \in 1..Len(pols) |-> pols[p[i]]]

\* the kind of outcome of an Evaluate call
OutcomeKind(out) ==
    IF out.err # "nil" THEN "error"
    ELSE IF out.res = Nil THEN "no opinion"
    ELSE IF out.res.decision = DecisionDenyExplicit THEN "explicit deny"
    ELSE IF out.res.allowed THEN "allow"
    ELSE "other"

\* the decision of a Check call: an error, allowed or denied
CheckDecision(c) ==
    IF c.err # <<>> THEN "error" ELSE IF c.res.allowed THEN "allowed" ELSE "denied"

\* a store that holds the policies of a list and nothing else, keyed by position
ListStore(pols) ==
    Store(EmptyMap, EmptyMap, EmptyMap, EmptyMap, EmptyMap, [i \in 1..Len(pols) |-> pols[i]])

\* Check of an engine with ABAC alone over ListStore(pols), the store's policy
\* map iterated in the order p
CheckInOrder(pols, req, p) ==
    Check(ListStore(pols), <<>>, req, Config(FALSE, FALSE, TRUE, DefaultMaxGraphDepth),
          [assignments |-> <<>>, permissions |-> <<>>, relations |-> <<>>, policies |-> p])

\* C30: the ABAC outcome is independent of the policy order.  Every
\* permutation of the list passed to Evaluate yields the same kind of outcome
\* as the call made (explicit deny, allow, no opinion or error), and Check
\* over a store holding these policies decides the same (allowed, denied or
\* error) in every order in which the store lists them.
C30_OrderIndependent ==
    evalOut # NoCall =>
        \A p \in Orderings(1..Len(evalIn.policies)) :
            /\ OutcomeKind(Evaluate(Permuted(evalIn.policies, p), evalIn.req))
                   = OutcomeKind(evalOut.out)
            /\ CheckDecision(CheckInOrder(evalIn.policies, evalIn.req, p))
                   = CheckDecision(CheckInOrder(evalIn.policies, evalIn.req,
                                                [i \in 1..Len(evalIn.policies) |-> i]))

\* the call returned an explicit deny from a list in which an allow policy
\* and two deny policies apply, and another order of the list names another
\* policy in matched_by
C30_Witness ==
    /\ evalOut # NoCall
    /\ OutcomeKind(evalOut.out) = "explicit deny"
    /\ ApplyingAt(evalIn.policies, evalIn.req, EffectAllow) # {}
    /\ Cardinality(ApplyingAt(evalIn.policies, evalIn.req, EffectDeny)) = 2
    /\ \E p \in Orderings(1..Len(evalIn.policies)) :
           LET other == Evaluate(Permuted(evalIn.policies, p), evalIn.req)
           IN  /\ OutcomeKind(other) = "explicit deny"
               /\ other.res.matchedBy[1].ruleID # evalOut.out.res.matchedBy[1].ruleID

====
